---- MODULE Spec2Model ----
(***************************************************************************)
(* RadiologyTrustLayer: the audit orchestrator (core/pipeline/             *)
(* audit_pipeline.py), the structured inference client with its bounded    *)
(* retry loop (core/pipeline/medgemma_client.py) and the penalty based     *)
(* scorer (core/scoring/score.py).                                         *)
(*                                                                         *)
(* Python dicts are records, lists are sequences, a missing key is a field *)
(* that is not in the DOMAIN of the record.  The generation capability     *)
(* (_raw_infer) is an external collaborator: each call nondeterministically *)
(* raises, returns text with no JSON in it, returns JSON that fails the    *)
(* task's schema, or returns a schema-valid value.                         *)
(***************************************************************************)
EXTENDS Integers, Sequences, FiniteSets

VARIABLES
    mock,            \* config.MEDGEMMA_MOCK
    image,           \* run_audit: the image argument
    report_text,     \* run_audit: the report_text argument
    progress_cb,     \* run_audit: whether a progress_cb argument is supplied
    progress_log,    \* the (step, total) pairs progress_cb has been called with
    run_id,          \* run_audit: local run_id
    prompt,          \* run_audit: local prompt, as the template arguments it was built from
    written,         \* the files write_json has written: path key and content
    mock_context,    \* medgemma_client._mock_context (module global)
    pc,              \* control position inside run_audit / infer_structured
    stage,           \* the stage run_audit is at
    attempt,         \* infer_structured: loop variable
    last_error,      \* infer_structured: local last_error
    calls,           \* number of _raw_infer calls the current infer_structured call has made
    last_gen,        \* what the latest of these calls came to
    prompt_to_use,   \* infer_structured: the prompt the latest of these calls was given
    pauses,          \* the attempts of the current infer_structured call that time.sleep(1) followed
    ret,             \* infer_structured: (result, errors) handed back to run_audit
    stage_result,    \* run_audit: claims_result, findings_result, ... by task name
    errors,          \* run_audit: local errors (pipeline_errors)
    schema_repairs,  \* run_audit: local schema_repairs
    trace,           \* stages started so far, in order
    exhausted,       \* tasks whose three attempts all failed
    scoring,         \* run_audit: (overall_score, severity, flag_counts) or NoValue
    result,          \* the record run_audit returns, NoValue before that
    runs,            \* concurrent runs: the locals of each run_audit call in flight
    text_pc,         \* extraction harness: "idle", "call" or "returned"
    text_in,         \* extraction harness: the argument of extract_json_from_text
    text_out,        \* extraction harness: what extract_json_from_text returned
    render_pc,       \* highlighter harness: "idle", "call" or "returned"
    render_in,       \* highlighter harness: the arguments of render_highlighted_report
    render_out,      \* highlighter harness: the pieces of the body it produced
    batch_pc,        \* run_batch: "idle", "loop", "summary" or "returned"
    cases,           \* run_batch: local cases, as parse_zip returned them
    case_i,          \* run_batch: loop variable i
    batch_results,   \* run_batch: local results
    batch_errors,    \* run_batch: local errors
    batch_cb,        \* run_batch: whether a progress_cb argument is supplied
    batch_log,       \* the (i, total) pairs the progress_cb of run_batch has been called with
    batch_out,       \* what run_batch returned
    _model,          \* medgemma_client._model (module global)
    _processor,      \* medgemma_client._processor (module global)
    _lora_loaded,    \* medgemma_client._lora_loaded (module global)
    lora_id,         \* config.RTL_LORA_ID
    loads,           \* number of models AutoModelForCausalLM.from_pretrained has loaded
    threads,         \* the threads of the process: position and locals of each
    cnt_pc,          \* generation calls of a run: "idle", "call", "loop", "raised" or "done"
    cnt_stage,       \* generation calls of a run: the stage run_audit is at
    cnt_attempt,     \* generation calls of a run: loop variable of infer_structured
    gen_calls,       \* number of _raw_infer calls made so far, by stage
    score_pc,        \* scorer harness: "idle", "call" or "returned"
    claims_arg,      \* scorer harness: the argument of compute_score
    score_out        \* scorer harness: what compute_score produced

\* the arguments of run_audit
input_vars == <<mock, image, report_text, progress_cb>>

\* the locals of run_audit and of the infer_structured call it is in
local_vars == <<progress_log, run_id, prompt, written, pc, stage, attempt, last_error, calls,
                last_gen, prompt_to_use, pauses, ret, stage_result, errors, schema_repairs, trace, exhausted,
                scoring, result>>

pipeline_vars == <<input_vars, mock_context, local_vars>>

score_vars == <<score_pc, claims_arg, score_out>>

conc_vars == <<runs>>

text_vars == <<text_pc, text_in, text_out>>

render_vars == <<render_pc, render_in, render_out>>

batch_vars == <<batch_pc, cases, case_i, batch_results, batch_errors, batch_cb, batch_log, batch_out>>

load_vars == <<_model, _processor, _lora_loaded, lora_id, loads, threads>>

count_vars == <<cnt_pc, cnt_stage, cnt_attempt, gen_calls>>

\* what run_audit itself does not touch
harness_vars == <<score_vars, conc_vars, text_vars, render_vars, batch_vars, load_vars,
                  count_vars>>

vars == <<pipeline_vars, harness_vars>>

----------------------------------------------------------------------------
(* Bounds of the model *)

\* longest alignment list handed to compute_score by the scorer harness
MaxLen == 5

\* longest alignment list a schema-valid alignment response carries in a run
MaxAlignments == 2

\* number of run_audit calls in flight at the same time
NumRuns == 2

\* number of threads that generate in local mode at the same time
NumThreads == 2

\* number of _infer_local calls of each thread
CallsPerThread == 2

\* largest number of cases in a batch
MaxCases == 3

\* largest number of claims handed to the highlighter
MaxClaims == 2

\* longest model response, in tokens, before it is wrapped (see TextInputs)
MaxText == 5

----------------------------------------------------------------------------
(* Generic helpers *)

NoValue == [none |-> TRUE]

\* dict.get(key, default)
DictGet(d, key, default) == IF key \in DOMAIN d THEN d[key] ELSE default

Max(a, b) == IF a >= b THEN a ELSE b

SeqsUpTo(S, n) == UNION {[1..k -> S] : k \in 0..n}

----------------------------------------------------------------------------
(* core/scoring/score.py *)

\* a faulty variant of PENALTY: a fourth label with a weight of its own
PENALTY_with_not_assessable ==
    [supported |-> 0, uncertain |-> 8, not_assessable |-> 12, needs_review |-> 25]

PENALTY == [supported |-> 0, uncertain |-> 8, needs_review |-> 25]

\* a faulty variant of NormalizeLabel: an unknown label is scored as supported
NormalizeLabel_as_supported(label) ==
    IF label \notin DOMAIN PENALTY THEN "supported" ELSE label

\* "if label not in PENALTY: label = 'uncertain'"
NormalizeLabel(label) ==
    IF label \notin DOMAIN PENALTY THEN "uncertain" ELSE label

\* a faulty variant of ScoreLoop: an alignment whose label is not a key of PENALTY
\* is passed over
RECURSIVE ScoreLoop_skip_unknown(_, _, _)
ScoreLoop_skip_unknown(claims, i, acc) ==
    IF i > Len(claims) THEN acc
    ELSE LET label == DictGet(claims[i], "label", "uncertain")
         IN  IF label \notin DOMAIN PENALTY
             THEN ScoreLoop_skip_unknown(claims, i + 1, acc)
             ELSE ScoreLoop_skip_unknown(claims, i + 1,
                      [counts |-> [acc.counts EXCEPT ![label] = @ + 1],
                       total_penalty |-> acc.total_penalty + PENALTY[label],
                       raised |-> FALSE])

\* The for loop of compute_score from claims[i] on.  acc carries the locals
\* counts and total_penalty; counts[label] += 1 on a key that counts does
\* not hold is a KeyError, which ends the call.
RECURSIVE ScoreLoop(_, _, _)
ScoreLoop(claims, i, acc) ==
    IF i > Len(claims) \/ acc.raised THEN acc
    ELSE LET label == NormalizeLabel(DictGet(claims[i], "label", "uncertain"))
         IN  IF label \notin DOMAIN acc.counts
             THEN [acc EXCEPT !.raised = TRUE]
             ELSE ScoreLoop(claims, i + 1,
                      [counts |-> [acc.counts EXCEPT ![label] = @ + 1],
                       total_penalty |-> acc.total_penalty + PENALTY[label],
                       raised |-> FALSE])

\* Percent values k for which the double (k/100)*100 is just below k, so
\* that int() gives k - 1: 0.29*100, 0.57*100 and 0.58*100 in IEEE-754
\* binary64.  For every other exact quotient of at most 100 the product
\* truncates to the floor of the exact value.
FloatShortfall == {29, 57, 58}

\* a faulty variant of PercentInt: round to the nearest integer
PercentInt_rounded(total_penalty, max_possible) ==
    (200 * total_penalty + max_possible) \div (2 * max_possible)

\* int((total_penalty / max_possible) * 100): float division, float product,
\* truncation toward zero
PercentInt(total_penalty, max_possible) ==
    LET q == (100 * total_penalty) \div max_possible
    IN  IF (100 * total_penalty) % max_possible = 0 /\ q \in FloatShortfall
        THEN q - 1
        ELSE q

\* a faulty variant of Severity: the low band starts above 80
Severity_strict(raw_score) ==
    IF raw_score > 80 THEN "low"
    ELSE IF raw_score >= 50 THEN "medium"
    ELSE "high"

Severity(raw_score) ==
    IF raw_score >= 80 THEN "low"
    ELSE IF raw_score >= 50 THEN "medium"
    ELSE "high"

\* a faulty variant of EmptyScore: the empty list is scored as the worst case
EmptyScore_worst ==
    [score |-> 0, severity |-> "high",
     counts |-> [supported |-> 0, uncertain |-> 0, needs_review |-> 0],
     total_penalty |-> 0, max_possible |-> 0, raised |-> FALSE]

\* "if not claims: return 100, 'low', {...}"
EmptyScore ==
    [score |-> 100, severity |-> "low",
     counts |-> [supported |-> 0, uncertain |-> 0, needs_review |-> 0],
     total_penalty |-> 0, max_possible |-> 0, raised |-> FALSE]

\* compute_score.  score, severity and counts are the returned triple;
\* total_penalty and max_possible are the locals of the call, kept for the
\* properties; raised tells that the call ended in an exception.
compute_score(claims) ==
    IF Len(claims) = 0 THEN EmptyScore
    ELSE LET acc == ScoreLoop(claims, 1,
                        [counts |-> [k \in DOMAIN PENALTY |-> 0],
                         total_penalty |-> 0, raised |-> FALSE])
             max_possible == PENALTY["needs_review"] * Len(claims)
             raw_score == IF max_possible = 0 THEN 100
                          ELSE Max(0, 100 - PercentInt(acc.total_penalty, max_possible))
         IN  IF acc.raised
             THEN [score |-> -1, severity |-> "none", counts |-> acc.counts,
                   total_penalty |-> acc.total_penalty, max_possible |-> max_possible,
                   raised |-> TRUE]
             ELSE [score |-> raw_score, severity |-> Severity(raw_score),
                   counts |-> acc.counts,
                   total_penalty |-> acc.total_penalty, max_possible |-> max_possible,
                   raised |-> FALSE]

----------------------------------------------------------------------------
(* core/pipeline/medgemma_client.py: mock results and fallbacks *)

\* the six tasks that go through infer_structured
Tasks == {"claim_extraction", "image_findings", "alignment", "rewrite",
          "clinician_summary", "patient_explain"}

\* A report text, as far as the code looks into it: the keywords of
\* _detect_mock_case that it contains.
NoReport == [name |-> "", keywords |-> {}]

ReportTexts ==
    {[name |-> "pneumonia report", keywords |-> {"consolidation"}],
     [name |-> "chf report", keywords |-> {"cardiomegaly"}],
     [name |-> "normal report", keywords |-> {"lungs are clear", "normal"}]}

\* Outside mock mode the code never looks into the report text: one report
\* stands for all.
LiveReportTexts == {r \in ReportTexts : r.name = "pneumonia report"}

\* a faulty variant of _detect_mock_case: a report with none of the keywords is
\* taken for a normal study
_detect_mock_case_default_normal(ctx) ==
    IF "cardiomegaly" \in ctx.keywords \/ "heart failure" \in ctx.keywords
          \/ "venous hypertension" \in ctx.keywords
    THEN "chf"
    ELSE "normal"

_detect_mock_case(ctx) ==
    IF "cardiomegaly" \in ctx.keywords \/ "heart failure" \in ctx.keywords
          \/ "venous hypertension" \in ctx.keywords
    THEN "chf"
    ELSE IF "pre-operative" \in ctx.keywords
              \/ ("lungs are clear" \in ctx.keywords /\ "normal" \in ctx.keywords)
    THEN "normal"
    ELSE "pneumonia"

MockClaim(id) == [claim_id |-> id, text |-> "text of " \o id]

MockAlignment(id, label) == [claim_id |-> id, label |-> label]

\* the label of each alignment of the three fixtures, c1 first
MockLabels(case) ==
    CASE case = "pneumonia" ->
            <<"supported", "supported", "supported", "supported", "uncertain">>
      [] case = "chf" ->
            <<"supported", "uncertain", "needs_review", "supported", "needs_review">>
      [] OTHER -> <<"supported", "supported", "supported", "supported">>

MockIds == <<"c1", "c2", "c3", "c4", "c5">>

\* the rewrites of the three fixtures: one for each claim that is not supported
MockRewrites(case) ==
    CASE case = "pneumonia" -> <<[claim_id |-> "c5"]>>
      [] case = "chf" -> <<[claim_id |-> "c2"], [claim_id |-> "c3"], [claim_id |-> "c5"]>>
      [] OTHER -> <<>>

\* _MOCK_PNEUMONIA, _MOCK_CHF and _MOCK_NORMAL, by task
MockData(case, task_name) ==
    LET labels == MockLabels(case)
    IN  CASE task_name = "claim_extraction" ->
                [claims |-> [i \in DOMAIN labels |-> MockClaim(MockIds[i])]]
          [] task_name = "image_findings" ->
                [findings |-> [i \in DOMAIN labels |-> "finding"],
                 image_quality |-> "adequate",
                 overall_impression |-> case]
          [] task_name = "alignment" ->
                [alignments |-> [i \in DOMAIN labels |-> MockAlignment(MockIds[i], labels[i])]]
          [] task_name = "rewrite" ->
                [rewrites |-> MockRewrites(case), edited_report |-> "edited " \o case]
          [] task_name = "clinician_summary" ->
                [summary |-> "summary " \o case]
          [] OTHER ->
                [plain_language_summary |-> "explanation " \o case]

_mock_result(ctx, task_name) == MockData(_detect_mock_case(ctx), task_name)

\* a faulty variant of _fallback_result: the fallback of the rewrite has no edited report
_fallback_result_no_edited_report(task_name) ==
    CASE task_name = "claim_extraction" -> [claims |-> <<>>]
      [] task_name = "image_findings" ->
            [findings |-> <<>>, image_quality |-> "poor",
             overall_impression |-> "Analysis failed."]
      [] task_name = "alignment" -> [alignments |-> <<>>]
      [] task_name = "rewrite" -> [rewrites |-> <<>>]
      [] task_name = "clinician_summary" ->
            [summary |-> "Audit could not be completed.", key_concerns |-> <<>>,
             recommendation |-> "review_recommended",
             confidence_note |-> "Inference failed."]
      [] OTHER -> [plain_language_summary |-> "Unable to generate explanation."]

_fallback_result(task_name) ==
    CASE task_name = "claim_extraction" -> [claims |-> <<>>]
      [] task_name = "image_findings" ->
            [findings |-> <<>>, image_quality |-> "poor",
             overall_impression |-> "Analysis failed."]
      [] task_name = "alignment" -> [alignments |-> <<>>]
      [] task_name = "rewrite" -> [rewrites |-> <<>>, edited_report |-> ""]
      [] task_name = "clinician_summary" ->
            [summary |-> "Audit could not be completed.", key_concerns |-> <<>>,
             recommendation |-> "review_recommended",
             confidence_note |-> "Inference failed."]
      [] OTHER -> [plain_language_summary |-> "Unable to generate explanation."]

----------------------------------------------------------------------------
(* The generation capability, as infer_structured sees it *)

\* one alignment of a schema-valid alignment response: a label the scorer
\* does not penalize, the one it penalizes most, and the label of the
\* alignment vocabulary that it does not know
AlignmentItems ==
    {[claim_id |-> "c1", label |-> l] :
        l \in {"supported", "needs_review", "not_assessable"}}

\* the schema-valid values a response can parse to, by task
ValidOutputs(task_name) ==
    CASE task_name = "claim_extraction" ->
            {[claims |-> <<>>], [claims |-> <<[claim_id |-> "c1", text |-> "t1"]>>]}
      [] task_name = "image_findings" ->
            {[findings |-> <<"f1">>, image_quality |-> "good"]}
      [] task_name = "alignment" ->
            {[alignments |-> s] : s \in SeqsUpTo(AlignmentItems, MaxAlignments)}
      [] task_name = "rewrite" ->
            {[rewrites |-> <<"r1">>, edited_report |-> "edited"], [rewrites |-> <<"r1">>]}
      [] task_name = "clinician_summary" -> {[summary |-> "generated summary"]}
      [] OTHER -> {[plain_language_summary |-> "generated explanation"]}

\* What one _raw_infer call followed by extract_json_from_text and validate
\* comes to: the call raises, the text holds no JSON, the JSON fails the
\* schema, or it parses to a schema-valid value.
GenOutcomes(task_name) ==
    {[kind |-> "raise"], [kind |-> "nojson"], [kind |-> "schema"]}
    \cup {[kind |-> "valid", value |-> v] : v \in ValidOutputs(task_name)}

\* the one-element error list that a failed attempt leaves in last_error;
\* the text of the message depends on the response of that attempt
ErrorsOf(outcome, k) ==
    <<[of_attempt |-> k,
       msg |-> CASE outcome.kind = "raise" -> "exception"
                 [] outcome.kind = "nojson" -> "No JSON found in response"
                 [] OTHER -> "schema violation"]>>

----------------------------------------------------------------------------
(* core/pipeline/medgemma_client.py: infer_structured *)

MAX_RETRIES == 3

\* a faulty variant of LoopBody: the errors of earlier attempts are returned with a
\* value that passed validation
LoopBody_stale_errors(outcome, k, prev_error) ==
    IF outcome.kind = "valid"
    THEN [next |-> "return", result |-> outcome.value, errs |-> prev_error,
          last_error |-> prev_error]
    ELSE [next |-> "continue", result |-> NoValue, errs |-> <<>>,
          last_error |-> ErrorsOf(outcome, k)]

\* a faulty variant of LoopBody: an exception of the generation call is not caught
LoopBody_uncaught(outcome, k, prev_error) ==
    CASE outcome.kind = "valid" ->
            [next |-> "return", result |-> outcome.value, errs |-> <<>>,
             last_error |-> prev_error]
      [] outcome.kind = "raise" ->
            [next |-> "propagate", result |-> NoValue, errs |-> <<>>,
             last_error |-> prev_error]
      [] OTHER ->
            [next |-> "continue", result |-> NoValue, errs |-> <<>>,
             last_error |-> ErrorsOf(outcome, k)]

\* The body of the retry loop for attempt k, given what the generation call
\* came to: "return parsed, []" for a valid value; for no JSON and for
\* schema errors last_error is set and the loop continues; an exception is
\* caught by "except Exception", which sets last_error too.
LoopBody(outcome, k, prev_error) ==
    CASE outcome.kind = "valid" ->
            [next |-> "return", result |-> outcome.value, errs |-> <<>>,
             last_error |-> prev_error]
      [] outcome.kind = "raise" ->
            [next |-> "continue", result |-> NoValue, errs |-> <<>>,
             last_error |-> ErrorsOf(outcome, k)]
      [] OTHER ->
            [next |-> "continue", result |-> NoValue, errs |-> <<>>,
             last_error |-> ErrorsOf(outcome, k)]

\* a faulty variant of PromptToUse: a retry sends the prompt as it is
PromptToUse_unchanged(p, k, prev_error) == [prompt |-> p, retry_hints |-> <<>>]

\* "prompt_to_use = prompt + retry_hint" for attempt k > 1, "prompt_to_use =
\* prompt" for attempt 1.  The text is held as the prompt it starts with and
\* the list of the hints that follow it; a hint is held as the last_error it
\* spells out.
PromptToUse(p, k, prev_error) ==
    IF k > 1
    THEN [prompt |-> p, retry_hints |-> <<prev_error>>]
    ELSE [prompt |-> p, retry_hints |-> <<>>]

\* "time.sleep(1)" is a statement of the except branch, under "if attempt <
\* MAX_RETRIES": it is reached when the attempt raised, and not by the two
\* "continue" statements
Sleeps(outcome, k) == outcome.kind = "raise" /\ k < MAX_RETRIES

\* a faulty variant of LoopContinues: the loop goes on to a fifth attempt
LoopContinues_two_more(k) == k < MAX_RETRIES + 2

\* a faulty variant of LoopContinues: one attempt too many
LoopContinues_one_more(k) == k <= MAX_RETRIES

\* "for attempt in range(1, MAX_RETRIES + 1)": after attempt k there is
\* another one
LoopContinues(k) == k < MAX_RETRIES

----------------------------------------------------------------------------
(* core/pipeline/audit_pipeline.py: run_audit *)

\* a faulty variant of NextStage: the clinician summary is asked for before the
\* rewrite
NextStage_swapped(s) ==
    CASE s = "claim_extraction" -> "image_findings"
      [] s = "image_findings" -> "alignment"
      [] s = "alignment" -> "scoring"
      [] s = "scoring" -> "clinician_summary"
      [] s = "clinician_summary" -> "rewrite"
      [] s = "rewrite" -> "patient_explain"
      [] OTHER -> "complete"

\* a faulty variant of NextStage: the run is assembled right after scoring
NextStage_abort(s) ==
    CASE s = "claim_extraction" -> "image_findings"
      [] s = "image_findings" -> "alignment"
      [] s = "alignment" -> "scoring"
      [] s = "scoring" -> "complete"
      [] s = "rewrite" -> "clinician_summary"
      [] s = "clinician_summary" -> "patient_explain"
      [] OTHER -> "complete"

\* the stage that follows stage s in the body of run_audit
NextStage(s) ==
    CASE s = "claim_extraction" -> "image_findings"
      [] s = "image_findings" -> "alignment"
      [] s = "alignment" -> "scoring"
      [] s = "scoring" -> "rewrite"
      [] s = "rewrite" -> "clinician_summary"
      [] s = "clinician_summary" -> "patient_explain"
      [] OTHER -> "complete"

\* a faulty variant of ClaimText: an id that no claim has is taken for the text
ClaimText_id_for_text(claims, cid) ==
    LET hits == {i \in DOMAIN claims : claims[i].claim_id = cid}
    IN  IF hits = {} THEN cid
        ELSE DictGet(claims[CHOOSE i \in hits : \A j \in hits : j <= i], "text", "")

\* claim_map.get(cid, {}).get("text", ""), claim_map being the dict
\* comprehension over claims (a later claim with the same id wins)
ClaimText(claims, cid) ==
    LET hits == {i \in DOMAIN claims : claims[i].claim_id = cid}
    IN  IF hits = {} THEN ""
        ELSE DictGet(claims[CHOOSE i \in hits : \A j \in hits : j <= i], "text", "")

\* "for a in alignments: a['claim_text'] = ..."
MergeClaimText(claims, alignments) ==
    [i \in DOMAIN alignments |->
        [k \in DOMAIN alignments[i] \cup {"claim_text"} |->
            IF k = "claim_text"
            THEN ClaimText(claims, DictGet(alignments[i], "claim_id", ""))
            ELSE alignments[i][k]]]

\* "total_steps = 6"
total_steps == 6

\* a faulty variant of ProgressStep: step 5b announces itself too
ProgressStep_with_summary ==
    [claim_extraction |-> 1, image_findings |-> 2, alignment |-> 3, scoring |-> 4,
     rewrite |-> 5, clinician_summary |-> 6, patient_explain |-> 7]

\* The step number of each "progress(step, msg)" call in the body of
\* run_audit, by the stage the call stands in front of.  Step 5b, the
\* clinician summary, has no such call.
ProgressStep ==
    [claim_extraction |-> 1, image_findings |-> 2, alignment |-> 3, scoring |-> 4,
     rewrite |-> 5, patient_explain |-> 6]

\* the inner function progress(step, msg): with a callback supplied it is
\* called with (step, total_steps, msg), and what it returns is dropped; the
\* message is named by the stage it announces
progress(log, cb, s) ==
    IF cb
    THEN Append(log, [step |-> ProgressStep[s], total |-> total_steps, msg |-> s])
    ELSE log

\* the progress call in front of the stage, if there is one, has been made
Announced ==
    \/ pc = "step"
    \/ pc = "call" /\ stage \notin DOMAIN ProgressStep

\* a.get("label")
LabelOf(a) == DictGet(a, "label", "None")

\* step 5: "flagged = [a for a in alignments if a.get('label') in (...)]"
flagged(alignments) ==
    SelectSeq(alignments, LAMBDA a : LabelOf(a) \in {"uncertain", "needs_review"})

\* step 5b: "flagged_claims = [a for a in alignments if a.get('label') in (...)]"
flagged_claims(alignments) ==
    SelectSeq(alignments,
              LAMBDA a : LabelOf(a) \in {"uncertain", "needs_review", "not_assessable"})

\* a faulty variant of EditedReport: an empty edited report gives way to the original
EditedReport_or_original(rewrite_result, text) ==
    IF DictGet(rewrite_result, "edited_report", "") = "" THEN text.name
    ELSE rewrite_result.edited_report

\* "edited_report = rewrite_result.get('edited_report', report_text)"
EditedReport(rewrite_result, text) == DictGet(rewrite_result, "edited_report", text.name)

\* The keyword arguments _load_prompt is called with for stage s (the schema
\* text, which is the same for every run, left out).  A json.dumps text is
\* held as the value it is the dump of.
PromptArgs(s, text, results, score) ==
    LET claims == DictGet(results["claim_extraction"], "claims", <<>>)
        findings == DictGet(results["image_findings"], "findings", <<>>)
        alignments == DictGet(results["alignment"], "alignments", <<>>)
    IN  CASE s = "claim_extraction" -> [name |-> s, report_text |-> text.name]
          [] s = "image_findings" -> [name |-> s]
          [] s = "alignment" ->
                [name |-> s, claims_json |-> claims, findings_json |-> findings]
          [] s = "rewrite" ->
                [name |-> s, report_text |-> text.name,
                 alignment_json |-> flagged(alignments)]
          [] s = "clinician_summary" ->
                [name |-> s,
                 overall_score |-> DictGet(score, "overall_score", -1),
                 severity |-> DictGet(score, "severity", "none"),
                 flag_counts_json |-> DictGet(score, "flag_counts", <<>>),
                 flagged_claims_json |-> flagged_claims(alignments)]
          [] OTHER ->
                [name |-> s, report_text |-> EditedReport(results["rewrite"], text)]

\* "if errs: errors.extend(errs)"
ExtendErrors(errs_so_far, errs) == IF errs # <<>> THEN errs_so_far \o errs ELSE errs_so_far

\* a faulty variant of AppendRepair: the stage is listed whatever the call returned
AppendRepair_always(repairs, errs, task) == Append(repairs, task)

\* "if errs: schema_repairs.append(task)"
AppendRepair(repairs, errs, task) == IF errs # <<>> THEN Append(repairs, task) ELSE repairs

\* new_run_id(): an identifier no other run has; the model has one run
new_run_id == "run_1"

\* "run_dir = config.RUNS_DIR / run_id; results_path = run_dir / 'results.json'"
ResultsPath(id) == <<"runs", id, "results.json">>

\* a faulty variant of write_json: nothing reaches the disk
write_json_skipped(files, path, data) == files

\* write_json(path, data): the file at path is written with the dump of data
write_json(files, path, data) == Append(files, [path |-> path, data |-> data])

\* d[key] = value
DictSet(d, key, value) ==
    [k \in DOMAIN d \cup {key} |-> IF k = key THEN value ELSE d[k]]

\* compute_score is not being exercised on its own
ScorerIdle ==
    /\ score_pc = "idle"
    /\ claims_arg = <<>>
    /\ score_out = NoValue

\* no concurrent runs are in flight
ConcIdle == runs = <<>>

\* extract_json_from_text is not being exercised on its own
TextIdle ==
    /\ text_pc = "idle"
    /\ text_in = <<>>
    /\ text_out = NoValue

\* render_highlighted_report is not being exercised
RenderIdle ==
    /\ render_pc = "idle"
    /\ render_in = NoValue
    /\ render_out = <<>>

\* no local-mode generation is under way
LoadIdle ==
    /\ _model = NoValue
    /\ _processor = NoValue
    /\ _lora_loaded = "None"
    /\ lora_id = ""
    /\ loads = 0
    /\ threads = <<>>

\* the generation calls of no run are being counted
CountIdle ==
    /\ cnt_pc = "idle"
    /\ cnt_stage = "none"
    /\ cnt_attempt = 0
    /\ gen_calls = <<>>

\* no batch is being run
BatchIdle ==
    /\ batch_pc = "idle"
    /\ cases = <<>>
    /\ case_i = 0
    /\ batch_results = <<>>
    /\ batch_errors = <<>>
    /\ batch_cb = FALSE
    /\ batch_log = <<>>
    /\ batch_out = NoValue

\* What run_audit keeps of the value infer_structured returned for stage s;
\* after the alignment stage the claim text is merged into the alignments.
KeepResult(results, s, value) ==
    IF s = "alignment"
    THEN LET claims == DictGet(results["claim_extraction"], "claims", <<>>)
             alignments == DictGet(value, "alignments", <<>>)
         IN  [results EXCEPT !["alignment"] =
                 [k \in DOMAIN value |->
                     IF k = "alignments" THEN MergeClaimText(claims, alignments)
                     ELSE value[k]]]
    ELSE [results EXCEPT ![s] = value]

\* "overall_score, severity, flag_counts = compute_score(alignments)"
ScoreOf(results) ==
    LET out == compute_score(DictGet(results["alignment"], "alignments", <<>>))
    IN  [overall_score |-> out.score, severity |-> out.severity,
         flag_counts |-> out.counts]

\* "result = {...}": the record of a run, without the fields that are the
\* same for every run of a deployment and without the two hashes
AuditResult(id, label, text, mk, results, score, errs, repairs) ==
    [run_id |-> id,
     case_label |-> label,
     original_report |-> text,
     mock_mode |-> mk,
     claims |-> DictGet(results["claim_extraction"], "claims", <<>>),
     findings |-> DictGet(results["image_findings"], "findings", <<>>),
     image_quality |-> DictGet(results["image_findings"], "image_quality", "adequate"),
     alignments |-> DictGet(results["alignment"], "alignments", <<>>),
     overall_score |-> DictGet(score, "overall_score", -1),
     severity |-> DictGet(score, "severity", "none"),
     flag_counts |-> DictGet(score, "flag_counts", <<>>),
     rewrites |-> DictGet(results["rewrite"], "rewrites", <<>>),
     edited_report |-> EditedReport(results["rewrite"], text),
     clinician_summary |-> results["clinician_summary"],
     patient_explanation |-> results["patient_explain"],
     pipeline_errors |-> errs,
     schema_repairs |-> repairs]

\* the stage results of a mock-mode run of its own on the report text
SoloResults(text) ==
    LET raw == [t \in Tasks |-> _mock_result(text, t)]
    IN  KeepResult(raw, "alignment", raw["alignment"])

\* the record of a mock-mode run of its own on the report text
SoloRecord(id, text) ==
    AuditResult(id, "", text, TRUE, SoloResults(text), ScoreOf(SoloResults(text)), <<>>, <<>>)

\* the locals of a run_audit call that has not started
RunNotStarted ==
    /\ progress_log = <<>>
    /\ run_id = ""
    /\ prompt = NoValue
    /\ written = <<>>
    /\ mock_context = NoReport
    /\ stage = "none"
    /\ attempt = 0
    /\ last_error = <<>>
    /\ calls = 0
    /\ last_gen = NoValue
    /\ prompt_to_use = NoValue
    /\ pauses = {}
    /\ ret = NoValue
    /\ stage_result = [t \in Tasks |-> NoValue]
    /\ errors = <<>>
    /\ schema_repairs = <<>>
    /\ trace = <<>>
    /\ exhausted = {}
    /\ scoring = NoValue
    /\ result = NoValue

\* A call of run_audit with an image and a report, as its signature asks for.
\* The callback changes nothing in the run, so the runs without one are the
\* ones of mock mode.
Init ==
    /\ mock \in BOOLEAN
    /\ image = "image"
    /\ report_text \in IF mock THEN ReportTexts ELSE LiveReportTexts
    /\ progress_cb \in IF mock THEN BOOLEAN ELSE {TRUE}
    /\ pc = "start"
    /\ RunNotStarted
    /\ ScorerIdle
    /\ ConcIdle
    /\ TextIdle
    /\ RenderIdle
    /\ BatchIdle
    /\ LoadIdle
    /\ CountIdle

\* run_audit up to step 1: run_id, fresh errors and schema_repairs,
\* set_mock_context
StartRun ==
    /\ pc = "start"
    /\ run_id' = new_run_id
    /\ mock_context' = report_text
    /\ errors' = <<>>
    /\ schema_repairs' = <<>>
    /\ stage' = "claim_extraction"
    /\ pc' = "call"
    /\ UNCHANGED <<input_vars, progress_log, prompt, written, attempt, last_error, calls,
                   last_gen, prompt_to_use, pauses, ret, stage_result, trace,
                   exhausted, scoring, result, harness_vars>>

\* "progress(k, ...)" in front of a step
Progress ==
    /\ pc = "call"
    /\ stage \in DOMAIN ProgressStep
    /\ progress_log' = progress(progress_log, progress_cb, stage)
    /\ pc' = "step"
    /\ UNCHANGED <<input_vars, run_id, prompt, written, mock_context, stage, attempt,
                   last_error, calls, last_gen, prompt_to_use, pauses, ret,
                   stage_result, errors, schema_repairs, trace, exhausted, scoring, result,
                   harness_vars>>

\* run_audit builds the prompt of the stage it is at and calls
\* infer_structured.  In mock mode the call returns at once; otherwise it
\* enters the retry loop.
CallInfer ==
    /\ Announced
    /\ stage \in Tasks
    /\ prompt' = PromptArgs(stage, report_text, stage_result, scoring)
    /\ trace' = Append(trace, stage)
    /\ calls' = 0
    /\ last_gen' = NoValue
    /\ prompt_to_use' = NoValue
    /\ pauses' = {}
    /\ IF mock
       THEN /\ ret' = [result |-> _mock_result(mock_context, stage), errs |-> <<>>]
            /\ pc' = "ret"
            /\ UNCHANGED <<attempt, last_error>>
       ELSE /\ attempt' = 1
            /\ last_error' = <<>>
            /\ pc' = "loop"
            /\ UNCHANGED ret
    /\ UNCHANGED <<input_vars, progress_log, run_id, written, mock_context, stage,
                   stage_result, errors, schema_repairs, exhausted, scoring,
                   result, harness_vars>>

\* One pass of the retry loop: the generation call and what the loop body
\* does with its outcome.  When the loop runs out, infer_structured returns
\* the fallback of the task and last_error.
Attempt ==
    /\ pc = "loop"
    /\ \E outcome \in GenOutcomes(stage) :
          LET body == LoopBody(outcome, attempt, last_error)
          IN  /\ calls' = calls + 1
              /\ prompt_to_use' = PromptToUse(prompt, attempt, last_error)
              /\ pauses' = IF Sleeps(outcome, attempt) THEN pauses \cup {attempt} ELSE pauses
              /\ last_gen' = outcome
              /\ last_error' = body.last_error
              /\ CASE body.next = "return" ->
                        /\ ret' = [result |-> body.result, errs |-> body.errs]
                        /\ pc' = "ret"
                        /\ UNCHANGED <<attempt, exhausted>>
                   [] body.next = "propagate" ->
                        /\ pc' = "raised"
                        /\ UNCHANGED <<attempt, ret, exhausted>>
                   [] OTHER ->
                        IF LoopContinues(attempt)
                        THEN /\ attempt' = attempt + 1
                             /\ pc' = "loop"
                             /\ UNCHANGED <<ret, exhausted>>
                        ELSE /\ ret' = [result |-> _fallback_result(stage),
                                        errs |-> body.last_error]
                             /\ pc' = "ret"
                             /\ exhausted' = exhausted \cup {stage}
                             /\ UNCHANGED attempt
    /\ UNCHANGED <<input_vars, progress_log, run_id, prompt, written, mock_context, stage,
                   stage_result, errors, schema_repairs, trace, scoring, result, harness_vars>>

\* run_audit after infer_structured has returned: "if errs: errors.extend(errs);
\* schema_repairs.append(task)", the stage's result is kept, and after the
\* alignment stage the claim text is merged into the alignments.  The locals
\* of the finished infer_structured call are gone.
HandleReturn ==
    /\ pc = "ret"
    /\ errors' = ExtendErrors(errors, ret.errs)
    /\ schema_repairs' = AppendRepair(schema_repairs, ret.errs, stage)
    /\ stage_result' = KeepResult(stage_result, stage, ret.result)
    /\ stage' = NextStage(stage)
    /\ pc' = "call"
    /\ attempt' = 0
    /\ last_error' = <<>>
    /\ calls' = 0
    /\ last_gen' = NoValue
    /\ prompt_to_use' = NoValue
    /\ pauses' = {}
    /\ ret' = NoValue
    /\ UNCHANGED <<input_vars, progress_log, run_id, prompt, written, mock_context,
                   trace, exhausted, scoring, result, harness_vars>>

\* step 4: compute_score(alignments)
Score ==
    /\ Announced
    /\ stage = "scoring"
    /\ trace' = Append(trace, stage)
    /\ LET out == compute_score(DictGet(stage_result["alignment"], "alignments", <<>>))
       IN  IF out.raised
           THEN pc' = "raised" /\ UNCHANGED <<scoring, stage>>
           ELSE /\ scoring' = ScoreOf(stage_result)
                /\ stage' = NextStage(stage)
                /\ pc' = "call"
    /\ UNCHANGED <<input_vars, progress_log, run_id, prompt, written, mock_context, attempt,
                   last_error, calls, last_gen, prompt_to_use, pauses, ret,
                   stage_result, errors, schema_repairs, exhausted, result, harness_vars>>

\* The record of the run is assembled.  hash_image(image) calls image.save:
\* with no image the call raises and the exception leaves run_audit.
Complete ==
    /\ pc = "call"
    /\ stage = "complete"
    /\ trace' = Append(trace, stage)
    /\ IF image = "None"
       THEN pc' = "raised" /\ UNCHANGED result
       ELSE /\ result' = AuditResult(run_id, "", report_text, mock, stage_result, scoring,
                                      errors, schema_repairs)
            /\ pc' = "persist"
    /\ UNCHANGED <<input_vars, progress_log, run_id, prompt, written, mock_context, stage,
                   attempt, last_error, calls, last_gen, prompt_to_use, pauses,
                   ret, stage_result, errors, schema_repairs, exhausted, scoring,
                   harness_vars>>

\* The record is written to results.json in the directory of the run.  The
\* write is taken to succeed.
Persist ==
    /\ pc = "persist"
    /\ written' = write_json(written, ResultsPath(run_id), result)
    /\ pc' = "return"
    /\ UNCHANGED <<input_vars, progress_log, run_id, prompt, mock_context, stage, attempt,
                   last_error, calls, last_gen, prompt_to_use, pauses, ret,
                   stage_result, errors, schema_repairs, trace, exhausted, scoring, result,
                   harness_vars>>

\* "result['results_path'] = str(results_path)" and "return result"
Return ==
    /\ pc = "return"
    /\ result' = DictSet(result, "results_path", ResultsPath(run_id))
    /\ pc' = "done"
    /\ UNCHANGED <<input_vars, progress_log, run_id, prompt, written, mock_context, stage,
                   attempt, last_error, calls, last_gen, prompt_to_use, pauses,
                   ret, stage_result, errors, schema_repairs, trace, exhausted, scoring,
                   harness_vars>>

Next ==
    \/ StartRun
    \/ Progress
    \/ CallInfer
    \/ Attempt
    \/ HandleReturn
    \/ Score
    \/ Complete
    \/ Persist
    \/ Return

Spec == Init /\ [][Next]_vars

\* Every generation call returns or raises, and run_audit is straight-line
\* code around it: a step that can be taken is taken.
LiveSpec == Spec /\ WF_vars(Next)

\* A call of run_audit with whatever a caller can pass: no image (None), an
\* empty report text.  Outside mock mode the report text is not looked into.
InputInit ==
    /\ mock \in BOOLEAN
    /\ image \in {"image", "None"}
    /\ report_text \in IF mock THEN ReportTexts \cup {NoReport} ELSE LiveReportTexts
    /\ progress_cb \in IF mock THEN BOOLEAN ELSE {TRUE}
    /\ pc = "start"
    /\ RunNotStarted
    /\ ScorerIdle
    /\ ConcIdle
    /\ TextIdle
    /\ RenderIdle
    /\ BatchIdle
    /\ LoadIdle
    /\ CountIdle

InputSpec == InputInit /\ [][Next]_vars

----------------------------------------------------------------------------
(* Several run_audit calls in flight in one process, in mock mode.  Each   *)
(* call has its own locals; medgemma_client._mock_context is a module      *)
(* global.  A step of a run is a whole stage, so that the calls interleave *)
(* at stage boundaries.  Progress calls, prompts and the write of the      *)
(* record, which touch nothing another run reads, are left out.            *)

RunIds == 1..NumRuns

\* the locals of one run_audit call before its first statement
FreshRun(text) ==
    [report_text |-> text, stage |-> "none",
     stage_result |-> [t \in Tasks |-> NoValue],
     scoring |-> NoValue, result |-> NoValue]

ConcInit ==
    /\ mock = TRUE
    /\ image = "image"
    /\ report_text = NoReport
    /\ progress_cb = FALSE
    /\ pc = "idle"
    /\ RunNotStarted
    /\ ScorerIdle
    /\ TextIdle
    /\ RenderIdle
    /\ BatchIdle
    /\ LoadIdle
    /\ CountIdle
    /\ runs \in [RunIds -> {FreshRun(text) : text \in ReportTexts}]

\* run r up to step 1: set_mock_context(report_text)
ConcStart(r) ==
    /\ runs[r].stage = "none"
    /\ mock_context' = runs[r].report_text
    /\ runs' = [runs EXCEPT ![r].stage = "claim_extraction"]
    /\ UNCHANGED <<input_vars, local_vars, score_vars, text_vars, render_vars,
                   batch_vars, load_vars, count_vars>>

\* run r calls infer_structured for the stage it is at, which in mock mode
\* returns _mock_result(task_name), and keeps what it returns
ConcInfer(r) ==
    /\ mock
    /\ runs[r].stage \in Tasks
    /\ runs' = [runs EXCEPT
                   ![r].stage_result =
                       KeepResult(@, runs[r].stage, _mock_result(mock_context, runs[r].stage)),
                   ![r].stage = NextStage(@)]
    /\ UNCHANGED <<pipeline_vars, score_vars, text_vars, render_vars,
                   batch_vars, load_vars, count_vars>>

\* run r, step 4
ConcScore(r) ==
    /\ runs[r].stage = "scoring"
    /\ runs' = [runs EXCEPT ![r].scoring = ScoreOf(runs[r].stage_result),
                            ![r].stage = NextStage(@)]
    /\ UNCHANGED <<pipeline_vars, score_vars, text_vars, render_vars,
                   batch_vars, load_vars, count_vars>>

\* run r assembles its record and returns it
ConcComplete(r) ==
    /\ runs[r].stage = "complete"
    /\ runs' = [runs EXCEPT
                   ![r].result = AuditResult(r, "", runs[r].report_text, mock,
                                             runs[r].stage_result, runs[r].scoring,
                                             <<>>, <<>>),
                   ![r].stage = "done"]
    /\ UNCHANGED <<pipeline_vars, score_vars, text_vars, render_vars,
                   batch_vars, load_vars, count_vars>>

ConcNext ==
    \E r \in RunIds :
        \/ ConcStart(r)
        \/ ConcInfer(r)
        \/ ConcScore(r)
        \/ ConcComplete(r)

ConcSpec == ConcInit /\ [][ConcNext]_vars

----------------------------------------------------------------------------
(* Scorer harness: compute_score applied to every list within the bound *)

\* labels a model response can carry: the three the scorer knows, the fourth
\* of the alignment vocabulary, and a string outside it
LabelStrings == {"supported", "uncertain", "needs_review", "not_assessable", "bogus"}

\* one alignment as the scorer sees it: with a label, or with the key missing
ScoredItems == {[evidence |-> "e", label |-> l] : l \in LabelStrings} \cup {[evidence |-> "e"]}

PipelineIdle ==
    /\ mock = FALSE
    /\ image = "image"
    /\ report_text = NoReport
    /\ progress_cb = FALSE
    /\ pc = "idle"
    /\ RunNotStarted

ScoreInit ==
    /\ PipelineIdle
    /\ ConcIdle
    /\ TextIdle
    /\ RenderIdle
    /\ BatchIdle
    /\ LoadIdle
    /\ CountIdle
    /\ score_pc = "call"
    /\ claims_arg \in SeqsUpTo(ScoredItems, MaxLen)
    /\ score_out = NoValue

CallComputeScore ==
    /\ score_pc = "call"
    /\ score_out' = compute_score(claims_arg)
    /\ score_pc' = "returned"
    /\ UNCHANGED <<claims_arg, pipeline_vars, conc_vars, text_vars, render_vars,
                   batch_vars, load_vars, count_vars>>

ScoreNext == CallComputeScore

ScoreSpec == ScoreInit /\ [][ScoreNext]_vars

----------------------------------------------------------------------------
(* core/util/validation.py: extract_json_from_text                          *)
(*                                                                          *)
(* A text is a sequence of tokens: "{" and "}", "q" for a double quote,     *)
(* "F" for a fence of three backticks, "j" for the word json, "w" for white *)
(* space and "p" for any other word.  JSON is cut down to objects and       *)
(* strings: an object is "{", values, "}" (keys, colons and commas are not  *)
(* told apart from the values they go with), a string is what stands        *)
(* between two quotes.  A parsed object is [obj |-> its values], a parsed   *)
(* string is [str |-> its tokens].                                          *)

TextTokens == {"{", "}", "q", "p", "F", "j", "w"}

Min(S) == CHOOSE x \in S : \A y \in S : x <= y

JSONDecodeError == [ok |-> FALSE]

\* the first position from i on that holds no white space
RECURSIVE SkipWs(_, _)
SkipWs(t, i) == IF i <= Len(t) /\ t[i] = "w" THEN SkipWs(t, i + 1) ELSE i

\* the position of the first quote from i on, 0 if there is none
RECURSIVE CloseQuote(_, _)
CloseQuote(t, i) ==
    IF i > Len(t) THEN 0
    ELSE IF t[i] = "q" THEN i
    ELSE CloseQuote(t, i + 1)

\* the JSON decoder at position i: a value, and the position after it
RECURSIVE ParseValue(_, _), ParseMembers(_, _, _)
ParseValue(t, i) ==
    IF i > Len(t) THEN JSONDecodeError
    ELSE IF t[i] = "q"
    THEN LET e == CloseQuote(t, i + 1)
         IN  IF e = 0 THEN JSONDecodeError
             ELSE [ok |-> TRUE, val |-> [str |-> SubSeq(t, i + 1, e - 1)], next |-> e + 1]
    ELSE IF t[i] = "{" THEN ParseMembers(t, SkipWs(t, i + 1), <<>>)
    ELSE JSONDecodeError

ParseMembers(t, i, acc) ==
    IF i > Len(t) THEN JSONDecodeError
    ELSE IF t[i] = "}" THEN [ok |-> TRUE, val |-> [obj |-> acc], next |-> i + 1]
    ELSE LET r == ParseValue(t, i)
         IN  IF r.ok THEN ParseMembers(t, SkipWs(t, r.next), Append(acc, r.val))
             ELSE JSONDecodeError

\* json.loads(t): one value with nothing but white space around it
json_loads(t) ==
    LET r == ParseValue(t, SkipWs(t, 1))
    IN  IF r.ok /\ SkipWs(t, r.next) > Len(t) THEN [ok |-> TRUE, val |-> r.val]
        ELSE JSONDecodeError

NoMatch == [found |-> FALSE]

\* The match of "```(?:json)?\s*(\{.*?\})\s*```" that begins with the fence at
\* position i: the optional word json, white space, then group 1 from a
\* brace to the first closing brace that white space and a fence follow.
FencedAt(t, i) ==
    LET j == IF i + 1 <= Len(t) /\ t[i + 1] = "j" THEN i + 2 ELSE i + 1
        a == SkipWs(t, j)
        ends == {b \in (a + 1)..Len(t) :
                    /\ t[b] = "}"
                    /\ SkipWs(t, b + 1) <= Len(t)
                    /\ t[SkipWs(t, b + 1)] = "F"}
    IN  IF a <= Len(t) /\ t[a] = "{" /\ ends # {}
        THEN [found |-> TRUE, group |-> SubSeq(t, a, Min(ends))]
        ELSE NoMatch

\* re.search of the fenced pattern: the leftmost match
SearchFenced(t) ==
    LET starts == {i \in DOMAIN t : t[i] = "F" /\ FencedAt(t, i).found}
    IN  IF starts = {} THEN NoMatch ELSE FencedAt(t, Min(starts))

\* a faulty variant of SearchBraces: the match ends at the first closing brace
SearchBraces_shortest(t) ==
    LET opens == {i \in DOMAIN t : t[i] = "{"}
        closes == {i \in DOMAIN t : t[i] = "}" /\ opens # {} /\ i > Min(opens)}
    IN  IF closes = {} THEN NoMatch
        ELSE [found |-> TRUE, group |-> SubSeq(t, Min(opens), Min(closes))]

\* re.search of "\{.*\}" with DOTALL: from the first opening brace to the
\* last closing brace after it
SearchBraces(t) ==
    LET opens == {i \in DOMAIN t : t[i] = "{"}
        closes == {i \in DOMAIN t : t[i] = "}" /\ opens # {} /\ i > Min(opens)}
    IN  IF closes = {} THEN NoMatch
        ELSE [found |-> TRUE,
              group |-> SubSeq(t, Min(opens), CHOOSE i \in closes : \A k \in closes : k <= i)]

\* Python's None, as extract_json_from_text returns it
None == [is_none |-> TRUE]

extract_json_from_text(t) ==
    LET direct == json_loads(t)
        fenced == SearchFenced(t)
        braces == SearchBraces(t)
    IN  IF direct.ok THEN direct.val
        ELSE IF fenced.found /\ json_loads(fenced.group).ok
        THEN json_loads(fenced.group).val
        ELSE IF braces.found /\ json_loads(braces.group).ok
        THEN json_loads(braces.group).val
        ELSE None

\* Responses of up to MaxText tokens, and each of them inside a fenced
\* block, inside prose, and inside a string of an object with and without
\* prose in front of it.
ShortTexts == SeqsUpTo(TextTokens, MaxText)

TextInputs ==
    ShortTexts
    \cup {<<"F", "j", "w">> \o c \o <<"w", "F">> : c \in ShortTexts}
    \cup {<<"p", "w">> \o c \o <<"w", "p">> : c \in ShortTexts}
    \cup {<<"{", "q">> \o c \o <<"q", "}">> : c \in ShortTexts}
    \cup {<<"p", "{", "q">> \o c \o <<"q", "}">> : c \in ShortTexts}

TextInit ==
    /\ PipelineIdle
    /\ ScorerIdle
    /\ ConcIdle
    /\ RenderIdle
    /\ BatchIdle
    /\ LoadIdle
    /\ CountIdle
    /\ text_pc = "call"
    /\ text_in \in TextInputs
    /\ text_out = NoValue

CallExtract ==
    /\ text_pc = "call"
    /\ text_out' = extract_json_from_text(text_in)
    /\ text_pc' = "returned"
    /\ UNCHANGED <<text_in, pipeline_vars, score_vars, conc_vars, render_vars,
                   batch_vars, load_vars, count_vars>>

TextNext == CallExtract

TextSpec == TextInit /\ [][TextNext]_vars

----------------------------------------------------------------------------
(* spaces_app/ui/render_report.py: render_highlighted_report                *)
(*                                                                          *)
(* A report text of n characters is the sequence 1, ..., n: each character  *)
(* is told apart by its place.  The body of the HTML is kept as the list    *)
(* of pieces "result" holds before it is joined: a piece is plain text or a *)
(* span element with the label and the claim it is for.  html.escape, which *)
(* replaces a character by the entity that displays as it, is left out.     *)

\* text[a:b] for a, b >= 0
Slice(text, a, b) ==
    IF a >= b \/ a >= Len(text) THEN <<>>
    ELSE SubSeq(text, a + 1, IF b > Len(text) THEN Len(text) ELSE b)

\* "spans.append((start, end, label, cid))" for one claim
SpanOf(claim, alignments, text) ==
    LET hits == {i \in DOMAIN alignments : alignments[i].claim_id = claim.claim_id}
        span == DictGet(claim, "sentence_span", [none |-> TRUE])
    IN  [start |-> DictGet(span, "start", 0),
         end |-> DictGet(span, "end", Len(text)),
         label |-> IF hits = {} THEN "uncertain"
                   ELSE alignments[CHOOSE i \in hits : \A j \in hits : j <= i].label,
         claim_id |-> claim.claim_id]

\* x put into the sorted list behind every element that does not start later
InsertByStart(x, sorted) ==
    LET k == Cardinality({i \in DOMAIN sorted : sorted[i].start <= x.start})
    IN  SubSeq(sorted, 1, k) \o <<x>> \o SubSeq(sorted, k + 1, Len(sorted))

\* "spans.sort(key=lambda x: x[0])": a stable sort by start
RECURSIVE SortByStart(_)
SortByStart(spans) ==
    IF spans = <<>> THEN <<>>
    ELSE InsertByStart(spans[Len(spans)], SortByStart(SubSeq(spans, 1, Len(spans) - 1)))

Plain(chars) == [tag |-> "plain", text |-> chars]

\* a faulty variant of Remaining: the text behind the last span is dropped
Remaining_dropped(text, cursor) == <<>>

\* "if cursor < len(report_text): result.append(report_text[cursor:])"
Remaining(text, cursor) ==
    IF cursor < Len(text) THEN <<Plain(Slice(text, cursor, Len(text)))>> ELSE <<>>

\* the loop over the sorted spans, from the i-th on, and what follows it
RECURSIVE EmitFrom(_, _, _, _)
EmitFrom(text, spans, i, cursor) ==
    IF i > Len(spans) THEN Remaining(text, cursor)
    ELSE LET sp == spans[i]
             before == IF cursor < sp.start THEN <<Plain(Slice(text, cursor, sp.start))>>
                       ELSE <<>>
             element == [tag |-> sp.label, claim_id |-> sp.claim_id,
                         text |-> Slice(text, sp.start, sp.end)]
         IN  before \o <<element>> \o EmitFrom(text, spans, i + 1, sp.end)

\* the pieces of the body, or the one <pre> element when there are no
\* alignments or no claims
render_highlighted_report(text, alignments, claims) ==
    IF alignments = <<>> \/ claims = <<>>
    THEN <<[tag |-> "pre", text |-> text]>>
    ELSE EmitFrom(text,
                  SortByStart([i \in DOMAIN claims |-> SpanOf(claims[i], alignments, text)]),
                  1, 0)

\* places a sentence span can start and end at, and lengths of a report
Offsets == {0, 10, 20, 30, 40}

ReportLengths == {30, 40}

ClaimIds == <<"c1", "c2", "c3", "c4">>

\* the i-th claim: with a sentence span, or with none
ClaimsAt(i) ==
    {[claim_id |-> ClaimIds[i], sentence_span |-> [start |-> a, end |-> b]] :
        a \in Offsets, b \in Offsets}
    \cup {[claim_id |-> ClaimIds[i]]}

ClaimLists == UNION {{c \in [1..k -> UNION {ClaimsAt(i) : i \in 1..k}] :
                         \A i \in 1..k : c[i] \in ClaimsAt(i)} : k \in 0..MaxClaims}

\* no alignments, or one for the first claim
AlignmentLists ==
    {<<>>} \cup {<<[claim_id |-> "c1", label |-> l]>> : l \in {"supported", "needs_review"}}

RenderInit ==
    /\ PipelineIdle
    /\ ScorerIdle
    /\ ConcIdle
    /\ TextIdle
    /\ BatchIdle
    /\ LoadIdle
    /\ CountIdle
    /\ render_pc = "call"
    /\ render_in \in {[report_text |-> [i \in 1..n |-> i], alignments |-> al, claims |-> cl] :
                          n \in ReportLengths, al \in AlignmentLists, cl \in ClaimLists}
    /\ render_out = <<>>

CallRender ==
    /\ render_pc = "call"
    /\ render_out' = render_highlighted_report(render_in.report_text, render_in.alignments,
                                                render_in.claims)
    /\ render_pc' = "returned"
    /\ UNCHANGED <<render_in, pipeline_vars, score_vars, conc_vars, text_vars,
                   batch_vars, load_vars, count_vars>>

RenderNext == CallRender

RenderSpec == RenderInit /\ [][RenderNext]_vars

----------------------------------------------------------------------------
(* core/batch/runner.py: run_batch                                          *)
(*                                                                          *)
(* The state starts after parse_zip has returned the cases, which it gives  *)
(* one id each and one image each, sorted by id.  A case's run_audit call   *)
(* is taken as one step: it returns its record, or it raises because the    *)
(* record cannot be written under the runs directory.  A number with one    *)
(* decimal is kept as its count of tenths.                                  *)

\* parse_zip: the "case_id" of the i-th case
CaseId(i) == <<"case", i>>

\* the run id of the run_audit call of the i-th case
RunIdOf(i) == <<"run", i>>

\* the lists parse_zip can return: never empty, the cases in the order of
\* their ids
CaseLists(mk) ==
    LET texts == IF mk THEN ReportTexts ELSE LiveReportTexts
    IN  {[i \in DOMAIN t |-> [case_id |-> CaseId(i), image |-> "image",
                               report_text |-> t[i]]] :
            t \in SeqsUpTo(texts, MaxCases) \ {<<>>}}

\* Outside mock mode: the stage results of a run whose generation calls all
\* succeed at once, with the alignment response al
LiveResults(al) ==
    LET raw == [t \in Tasks |->
                   CASE t = "alignment" -> al
                     [] t = "claim_extraction" ->
                           CHOOSE v \in ValidOutputs(t) : Len(v.claims) = 1
                     [] t = "rewrite" ->
                           CHOOSE v \in ValidOutputs(t) : "edited_report" \in DOMAIN v
                     [] OTHER -> CHOOSE v \in ValidOutputs(t) : TRUE]
    IN  KeepResult(raw, "alignment", al)

\* the alignment responses of the runs of a batch outside mock mode: no
\* alignment, or one alignment with any label
BatchAlignments == {[alignments |-> s] : s \in {<<>>} \cup {<<a>> : a \in AlignmentItems}}

\* the stage results the run_audit call of a case can end with
CaseResults(mk, case) ==
    IF mk THEN {SoloResults(case.report_text)}
    ELSE {LiveResults(al) : al \in BatchAlignments}

\* What "run_audit(image=case.image, report_text=case.report_text,
\* case_label=case.case_id, progress_cb=case_progress)" comes to for the
\* i-th case: the record it returns, or the exception it raises.
AuditOutcomes(mk, i, case) ==
    {[kind |-> "returned",
      record |-> AuditResult(RunIdOf(i), case.case_id, case.report_text, mk,
                             res, ScoreOf(res), <<>>, <<>>)] :
        res \in CaseResults(mk, case)}
    \cup {[kind |-> "raised", error |-> "OSError"]}

\* the calls of the progress_cb of run_batch for the i-th case: the one
\* before the try, then the ones case_progress forwards, one for each call
\* run_audit makes
CaseProgress(cb, i, total) ==
    IF cb
    THEN <<[i |-> i, total |-> total, detail |-> "case"]>>
         \o [k \in 1..total_steps |-> [i |-> i, total |-> total, detail |-> "step"]]
    ELSE <<>>

\* a faulty variant of RecordOutcome: the exception of a case is swallowed
\* without a record of it
RecordOutcome_lost(outcome, case, res, errs) ==
    IF outcome.kind = "returned"
    THEN [results |-> Append(res, outcome.record), errors |-> errs]
    ELSE [results |-> res, errors |-> errs]

\* "results.append(result)", or "except Exception as e: errors.append(...)"
RecordOutcome(outcome, case, res, errs) ==
    IF outcome.kind = "returned"
    THEN [results |-> Append(res, outcome.record), errors |-> errs]
    ELSE [results |-> res,
          errors |-> Append(errs, [case_id |-> case.case_id, error |-> outcome.error])]

RECURSIVE SumOf(_)
SumOf(s) == IF Len(s) = 0 THEN 0 ELSE s[1] + SumOf(Tail(s))

\* list.count(v)
CountOf(s, v) == Len(SelectSeq(s, LAMBDA x : x = v))

\* round(num / den, 1), in tenths.  With fewer than twenty cases a quotient
\* that lies halfway between two tenths ends in .25 or .75, which a double
\* holds exactly, so that round() takes the even tenth.
RoundTenths(num, den) ==
    LET q == (10 * num) \div den
        r == (10 * num) % den
    IN  IF 2 * r < den THEN q
        ELSE IF 2 * r > den THEN q + 1
        ELSE IF q % 2 = 0 THEN q ELSE q + 1

\* "summary = {...}"
BatchSummary(total, res, errs) ==
    LET scores == [k \in DOMAIN res |-> res[k].overall_score]
        severities == [k \in DOMAIN res |-> res[k].severity]
    IN  [total_cases |-> total,
         completed |-> Len(res),
         failed |-> Len(errs),
         avg_score |-> IF Len(scores) > 0 THEN RoundTenths(SumOf(scores), Len(scores))
                       ELSE 0,
         severity_distribution |->
             [low |-> CountOf(severities, "low"),
              medium |-> CountOf(severities, "medium"),
              high |-> CountOf(severities, "high")],
         pct_needing_review |->
             RoundTenths(100 * Len(SelectSeq(severities,
                                             LAMBDA s : s \in {"medium", "high"})),
                         Max(Len(res), 1)),
         errors |-> errs]

BatchInit ==
    /\ mock \in BOOLEAN
    /\ image = "image"
    /\ report_text = NoReport
    /\ progress_cb = FALSE
    /\ pc = "idle"
    /\ RunNotStarted
    /\ ScorerIdle
    /\ ConcIdle
    /\ TextIdle
    /\ RenderIdle
    /\ LoadIdle
    /\ CountIdle
    /\ batch_pc = "loop"
    /\ cases \in CaseLists(mock)
    /\ case_i = 1
    /\ batch_results = <<>>
    /\ batch_errors = <<>>
    /\ batch_cb \in BOOLEAN
    /\ batch_log = <<>>
    /\ batch_out = NoValue

\* one pass of "for i, case in enumerate(cases, start=1)"
AuditCase ==
    /\ batch_pc = "loop"
    /\ case_i <= Len(cases)
    /\ \E outcome \in AuditOutcomes(mock, case_i, cases[case_i]) :
          LET kept == RecordOutcome(outcome, cases[case_i], batch_results, batch_errors)
          IN  /\ batch_results' = kept.results
              /\ batch_errors' = kept.errors
    /\ batch_log' = batch_log \o CaseProgress(batch_cb, case_i, Len(cases))
    /\ case_i' = case_i + 1
    /\ UNCHANGED <<batch_pc, cases, batch_cb, batch_out, pipeline_vars, score_vars,
                   conc_vars, text_vars, render_vars, load_vars, count_vars>>

\* the loop is over: the summary is computed and run_batch returns
Summarize ==
    /\ batch_pc = "loop"
    /\ case_i > Len(cases)
    /\ batch_out' = [total |-> Len(cases),
                     results |-> batch_results,
                     summary |-> BatchSummary(Len(cases), batch_results, batch_errors)]
    /\ batch_pc' = "returned"
    /\ UNCHANGED <<cases, case_i, batch_results, batch_errors, batch_cb, batch_log,
                   pipeline_vars, score_vars, conc_vars, text_vars, render_vars, load_vars,
                   count_vars>>

BatchNext == AuditCase \/ Summarize

BatchSpec == BatchInit /\ [][BatchNext]_vars

----------------------------------------------------------------------------
(* core/pipeline/medgemma_client.py: _load_local_model, _apply_lora and     *)
(* _infer_local, called by several threads of one process.  _model,         *)
(* _processor and _lora_loaded are module globals that no lock guards; the  *)
(* two from_pretrained calls take long and let the other threads run.  A    *)
(* model is told from another by the number of the load that made it.       *)

ThreadIds == 1..NumThreads

\* a thread that is in no call
FreshThread == [pc |-> "idle", model |-> NoValue, calls |-> 0]

LoadInit ==
    /\ PipelineIdle
    /\ ScorerIdle
    /\ ConcIdle
    /\ TextIdle
    /\ RenderIdle
    /\ BatchIdle
    /\ CountIdle
    /\ _model = NoValue
    /\ _processor = NoValue
    /\ _lora_loaded = "None"
    /\ lora_id \in {"", "adapter"}
    /\ loads = 0
    /\ threads = [t \in ThreadIds |-> FreshThread]

\* a thread enters _infer_local, which calls _load_local_model
CallInferLocal(t) ==
    /\ threads[t].pc = "idle"
    /\ threads[t].calls < CallsPerThread
    /\ threads' = [threads EXCEPT ![t].pc = "check"]
    /\ UNCHANGED <<_model, _processor, _lora_loaded, lora_id, loads, pipeline_vars,
                   score_vars, conc_vars, text_vars, render_vars, batch_vars, count_vars>>

\* "if _model is not None: return _model, _processor"
CheckLoaded(t) ==
    /\ threads[t].pc = "check"
    /\ threads' = IF _model # NoValue
                  THEN [threads EXCEPT ![t].pc = "generate", ![t].model = _model]
                  ELSE [threads EXCEPT ![t].pc = "load_processor"]
    /\ UNCHANGED <<_model, _processor, _lora_loaded, lora_id, loads, pipeline_vars,
                   score_vars, conc_vars, text_vars, render_vars, batch_vars, count_vars>>

\* "_processor = AutoProcessor.from_pretrained(...)"
LoadProcessor(t) ==
    /\ threads[t].pc = "load_processor"
    /\ _processor' = [loaded_by |-> t]
    /\ threads' = [threads EXCEPT ![t].pc = "load_model"]
    /\ UNCHANGED <<_model, _lora_loaded, lora_id, loads, pipeline_vars,
                   score_vars, conc_vars, text_vars, render_vars, batch_vars, count_vars>>

\* "_model = AutoModelForCausalLM.from_pretrained(...)"
LoadModel(t) ==
    /\ threads[t].pc = "load_model"
    /\ loads' = loads + 1
    /\ _model' = [load |-> loads + 1, adapter |-> ""]
    /\ threads' = [threads EXCEPT ![t].pc = "lora"]
    /\ UNCHANGED <<_processor, _lora_loaded, lora_id, pipeline_vars,
                   score_vars, conc_vars, text_vars, render_vars, batch_vars, count_vars>>

\* "if config.RTL_LORA_ID: _apply_lora(config.RTL_LORA_ID)"; _apply_lora
\* returns at once when _lora_loaded is the adapter asked for, and merges
\* the adapter into the model _model holds otherwise
ApplyLora(t) ==
    /\ threads[t].pc = "lora"
    /\ IF lora_id # "" /\ _lora_loaded # lora_id
       THEN /\ _model' = [_model EXCEPT !.adapter = lora_id]
            /\ _lora_loaded' = lora_id
       ELSE UNCHANGED <<_model, _lora_loaded>>
    /\ threads' = [threads EXCEPT ![t].pc = "eval"]
    /\ UNCHANGED <<_processor, lora_id, loads, pipeline_vars,
                   score_vars, conc_vars, text_vars, render_vars, batch_vars, count_vars>>

\* "_model.eval()" and "return _model, _processor"
EvalAndReturn(t) ==
    /\ threads[t].pc = "eval"
    /\ threads' = [threads EXCEPT ![t].pc = "generate", ![t].model = _model]
    /\ UNCHANGED <<_model, _processor, _lora_loaded, lora_id, loads, pipeline_vars,
                   score_vars, conc_vars, text_vars, render_vars, batch_vars, count_vars>>

\* the rest of _infer_local: model.generate on the model the thread was
\* given, and the return
Generate(t) ==
    /\ threads[t].pc = "generate"
    /\ threads' = [threads EXCEPT ![t] = [pc |-> "idle", model |-> NoValue,
                                          calls |-> threads[t].calls + 1]]
    /\ UNCHANGED <<_model, _processor, _lora_loaded, lora_id, loads, pipeline_vars,
                   score_vars, conc_vars, text_vars, render_vars, batch_vars, count_vars>>

LoadNext ==
    \E t \in ThreadIds :
        \/ CallInferLocal(t)
        \/ CheckLoaded(t)
        \/ LoadProcessor(t)
        \/ LoadModel(t)
        \/ ApplyLora(t)
        \/ EvalAndReturn(t)
        \/ Generate(t)

LoadSpec == LoadInit /\ [][LoadNext]_vars

----------------------------------------------------------------------------
(* The generation calls of one run_audit call, stage by stage.  The run is  *)
(* followed through its stages and through the retry loop of each           *)
(* infer_structured call as in Spec, with the results of the stages left    *)
(* out: what is kept is how many times _raw_infer has been called for each  *)
(* stage.                                                                   *)

\* the stages of run_audit that work is done in
CountedStages == Tasks \cup {"scoring"}

CountInit ==
    /\ mock \in BOOLEAN
    /\ image = "image"
    /\ report_text = NoReport
    /\ progress_cb = FALSE
    /\ pc = "idle"
    /\ RunNotStarted
    /\ ScorerIdle
    /\ ConcIdle
    /\ TextIdle
    /\ RenderIdle
    /\ BatchIdle
    /\ LoadIdle
    /\ cnt_pc = "call"
    /\ cnt_stage = "claim_extraction"
    /\ cnt_attempt = 0
    /\ gen_calls = [s \in CountedStages |-> 0]

\* run_audit calls infer_structured for the stage it is at: in mock mode the
\* call returns the fixture at once, otherwise it enters the retry loop
CountCallInfer ==
    /\ cnt_pc = "call"
    /\ cnt_stage \in Tasks
    /\ IF mock
       THEN /\ cnt_stage' = NextStage(cnt_stage)
            /\ UNCHANGED <<cnt_pc, cnt_attempt>>
       ELSE /\ cnt_attempt' = 1
            /\ cnt_pc' = "loop"
            /\ UNCHANGED cnt_stage
    /\ UNCHANGED <<gen_calls, pipeline_vars, score_vars, conc_vars, text_vars, render_vars,
                   batch_vars, load_vars>>

\* one pass of the retry loop: "raw_text = _raw_infer(prompt_to_use, image)"
\* and what the loop body does with its outcome
CountAttempt ==
    /\ cnt_pc = "loop"
    /\ gen_calls' = [gen_calls EXCEPT ![cnt_stage] = @ + 1]
    /\ \E outcome \in GenOutcomes(cnt_stage) :
          LET body == LoopBody(outcome, cnt_attempt, <<>>)
          IN  CASE body.next = "return" ->
                        /\ cnt_stage' = NextStage(cnt_stage)
                        /\ cnt_pc' = "call"
                        /\ cnt_attempt' = 0
                [] body.next = "propagate" ->
                        /\ cnt_pc' = "raised"
                        /\ UNCHANGED <<cnt_stage, cnt_attempt>>
                [] OTHER ->
                        IF LoopContinues(cnt_attempt)
                        THEN /\ cnt_attempt' = cnt_attempt + 1
                             /\ UNCHANGED <<cnt_pc, cnt_stage>>
                        ELSE /\ cnt_stage' = NextStage(cnt_stage)
                             /\ cnt_pc' = "call"
                             /\ cnt_attempt' = 0
    /\ UNCHANGED <<pipeline_vars, score_vars, conc_vars, text_vars, render_vars,
                   batch_vars, load_vars>>

\* step 4: compute_score works on the alignments and calls no model
CountScore ==
    /\ cnt_pc = "call"
    /\ cnt_stage = "scoring"
    /\ cnt_stage' = NextStage(cnt_stage)
    /\ UNCHANGED <<cnt_pc, cnt_attempt, gen_calls, pipeline_vars, score_vars, conc_vars,
                   text_vars, render_vars, batch_vars, load_vars>>

\* the record is assembled and written, and run_audit returns
CountComplete ==
    /\ cnt_pc = "call"
    /\ cnt_stage = "complete"
    /\ cnt_pc' = "done"
    /\ UNCHANGED <<cnt_stage, cnt_attempt, gen_calls, pipeline_vars, score_vars, conc_vars,
                   text_vars, render_vars, batch_vars, load_vars>>

CountNext ==
    \/ CountCallInfer
    \/ CountAttempt
    \/ CountScore
    \/ CountComplete

CountSpec == CountInit /\ [][CountNext]_vars

----------------------------------------------------------------------------
(* Properties of infer_structured and run_audit, checked under Spec *)

\* the order of the stages of one run
StageOrder ==
    <<"claim_extraction", "image_findings", "alignment", "scoring", "rewrite",
      "clinician_summary", "patient_explain", "complete">>

IsPrefix(s, t) == Len(s) <= Len(t) /\ \A i \in DOMAIN s : s[i] = t[i]

FailureKinds == {"raise", "nojson", "schema"}

\* C1: outside mock mode, when every attempt of an infer_structured call
\* has failed (exception, no JSON or schema violation, in any mix), the
\* generation capability has been called exactly 3 times and the call
\* returns the fallback of the task with the non-empty error list of the
\* last attempt.
C1_ExhaustedReturnsFallback ==
    /\ (pc = "loop") =>
          /\ calls = attempt - 1
          /\ calls < 3
          /\ (calls > 0) => (last_gen.kind \in FailureKinds /\ last_error = ErrorsOf(last_gen, calls))
    /\ (pc = "ret" /\ ~mock /\ last_gen.kind \in FailureKinds) =>
          /\ calls = 3
          /\ ret.result = _fallback_result(stage)
          /\ (stage = "alignment") => ret.result = [alignments |-> <<>>]
          /\ (stage = "claim_extraction") => ret.result = [claims |-> <<>>]
          /\ ret.errs # <<>>
          /\ ret.errs = ErrorsOf(last_gen, 3)

\* C1 witness: an alignment call returns after a third attempt that raised.
C1_Witness ==
    /\ pc = "ret"
    /\ ~mock
    /\ stage = "alignment"
    /\ calls = 3
    /\ last_gen.kind = "raise"
    /\ ret.result = [alignments |-> <<>>]

\* C2: outside mock mode, when attempt k is the first whose output is
\* schema-valid, the call returns that value with an empty error list and
\* has made k generation calls, none after attempt k.
C2_FirstValidReturned ==
    /\ (pc = "loop" /\ calls > 0) => last_gen.kind # "valid"
    /\ (pc = "ret" /\ ~mock /\ last_gen.kind = "valid") =>
          /\ ret.result = last_gen.value
          /\ ret.errs = <<>>
          /\ attempt \in 1..3
          /\ calls = attempt

\* C2 witness: the first attempt failed and the second one returned a
\* non-empty list of alignments.
C2_Witness ==
    /\ pc = "ret"
    /\ ~mock
    /\ stage = "alignment"
    /\ attempt = 2
    /\ last_gen.kind = "valid"
    /\ Len(ret.result.alignments) > 0
    /\ ret.errs = <<>>

\* C3: a run starts its stages in the fixed order, each once, none skipped
\* or repeated, and every stage before the current one has produced its
\* output, whatever the earlier stages came to.
C3_StagesInOrder ==
    /\ IsPrefix(trace, StageOrder)
    /\ (pc = "done") => trace = StageOrder
    /\ \A i \in 1..(Len(trace) - 1) :
          IF trace[i] = "scoring" THEN scoring # NoValue
          ELSE stage_result[trace[i]] # NoValue

\* C3 witness: a run outside mock mode is complete although two of its
\* stages fell back.
C3_Witness ==
    /\ pc = "done"
    /\ ~mock
    /\ exhausted = {"claim_extraction", "alignment"}

\* C4: no failure of a stage is raised out of run_audit; the run returns a
\* record in which every failed stage is replaced by its fallback and has
\* left its error in pipeline_errors.
C4_NoStageFailureEscapes ==
    /\ pc # "raised"
    /\ (pc = "done") =>
          /\ result # NoValue
          /\ \A t \in exhausted : \E i \in DOMAIN result.schema_repairs :
                                      result.schema_repairs[i] = t
          /\ Len(result.pipeline_errors) = Cardinality(exhausted)
          /\ \A i \in DOMAIN result.pipeline_errors :
                /\ result.pipeline_errors[i].of_attempt = 3
                /\ result.pipeline_errors[i].msg \in
                      {"exception", "No JSON found in response", "schema violation"}
          /\ ("claim_extraction" \in exhausted) => result.claims = <<>>
          /\ ("image_findings" \in exhausted) =>
                (result.findings = <<>> /\ result.image_quality = "poor")
          /\ ("alignment" \in exhausted) =>
                (result.alignments = <<>> /\ result.overall_score = 100)
          /\ ("rewrite" \in exhausted) =>
                (result.rewrites = <<>> /\ result.edited_report = "")
          /\ ("clinician_summary" \in exhausted) =>
                result.clinician_summary.summary = "Audit could not be completed."
          /\ ("patient_explain" \in exhausted) =>
                result.patient_explanation.plain_language_summary
                    = "Unable to generate explanation."

\* C4 witness: a run in which every stage failed, one of them by an
\* exception on its last attempt, has returned its record.
C4_Witness ==
    /\ pc = "done"
    /\ exhausted = Tasks
    /\ \E i \in DOMAIN result.pipeline_errors : result.pipeline_errors[i].msg = "exception"

\* C5 (under LiveSpec): every run reaches the terminal state, and reaches it
\* only with all stages executed, once each, however many of them fell back.
C5_RunCompletes ==
    /\ <>(pc = "done")
    /\ [](pc = "done" =>
            /\ Len(trace) = 8
            /\ \A i \in 1..8 : trace[i] = StageOrder[i]
            /\ \A t \in Tasks : stage_result[t] # NoValue
            /\ scoring # NoValue)

\* C5 witness: a run is complete in which the alignment, rewrite and
\* patient explanation stages all fell back.
C5_Witness ==
    /\ pc = "done"
    /\ exhausted = {"alignment", "rewrite", "patient_explain"}
    /\ Len(trace) = 8

----------------------------------------------------------------------------
(* Properties of compute_score, checked under ScoreSpec *)

HasLabel(a, l) == "label" \in DOMAIN a /\ a.label = l

\* the number of alignments of the list that carry label l
NumLabel(claims, l) == Cardinality({i \in DOMAIN claims : HasLabel(claims[i], l)})

\* the label is missing or is none of the three labels the scorer knows
UnknownLabel(a) ==
    "label" \notin DOMAIN a \/ a.label \notin {"supported", "uncertain", "needs_review"}

NumUnknown(claims) == Cardinality({i \in DOMAIN claims : UnknownLabel(claims[i])})

\* every alignment carries one of the four labels of the alignment vocabulary
FourLabelsOnly(claims) ==
    \A i \in DOMAIN claims :
        /\ "label" \in DOMAIN claims[i]
        /\ claims[i].label \in {"supported", "uncertain", "not_assessable", "needs_review"}

Scored == score_pc = "returned"

\* C6 as stated: for a non-empty list the score is
\* max(0, 100 - round(100 * total_penalty / (25 * count))), rounding to the
\* nearest integer.
C6_RoundedScore ==
    (Scored /\ Len(claims_arg) > 0) =>
        LET mp == 25 * Len(claims_arg)
            tp == score_out.total_penalty
        IN  score_out.score = Max(0, 100 - ((200 * tp + mp) \div (2 * mp)))

\* C6 amended: for a non-empty list the score is max(0, 100 - t), where t is
\* the quotient 100 * total_penalty / (25 * count) truncated toward zero as
\* the float product leaves it: the floor of the quotient, and one less than
\* the quotient when it is exactly 29, 57 or 58.  It never rounds up.
C6_TruncatedScore ==
    (Scored /\ Len(claims_arg) > 0) =>
        LET mp == 25 * Len(claims_arg)
            tp == score_out.total_penalty
            q == (100 * tp) \div mp
            exact == (100 * tp) % mp = 0
            t == IF exact /\ q \in {29, 57, 58} THEN q - 1 ELSE q
        IN  /\ score_out.score = Max(0, 100 - t)
            /\ t * mp <= 100 * tp

\* C6 witness: one uncertain alignment among three scores 90, where
\* rounding to the nearest integer would give 89.
C6_Witness ==
    /\ Scored
    /\ Len(claims_arg) = 3
    /\ score_out.total_penalty = 8
    /\ score_out.score = 90

\* C7 as stated: a not_assessable alignment contributes a weight of 12 of
\* its own (supported 0, uncertain 8, needs_review 25).
C7_OwnWeight ==
    (Scored /\ FourLabelsOnly(claims_arg) /\ Len(claims_arg) > 0) =>
        score_out.total_penalty =
            8 * NumLabel(claims_arg, "uncertain")
            + 12 * NumLabel(claims_arg, "not_assessable")
            + 25 * NumLabel(claims_arg, "needs_review")

\* C7 amended: the scorer has no weight for not_assessable; such an
\* alignment is scored as an uncertain one: it contributes 8 and is counted
\* under uncertain (supported 0, uncertain 8, needs_review 25).
C7_ScoredAsUncertain ==
    (Scored /\ FourLabelsOnly(claims_arg) /\ Len(claims_arg) > 0) =>
        /\ score_out.total_penalty =
               8 * (NumLabel(claims_arg, "uncertain") + NumLabel(claims_arg, "not_assessable"))
               + 25 * NumLabel(claims_arg, "needs_review")
        /\ DOMAIN score_out.counts = {"supported", "uncertain", "needs_review"}
        /\ score_out.counts["uncertain"] =
               NumLabel(claims_arg, "uncertain") + NumLabel(claims_arg, "not_assessable")

\* C7 witness: a scored list that holds a not_assessable alignment next to
\* an uncertain one.
C7_Witness ==
    /\ Scored
    /\ FourLabelsOnly(claims_arg)
    /\ NumLabel(claims_arg, "not_assessable") > 0
    /\ NumLabel(claims_arg, "uncertain") > 0
    /\ score_out.total_penalty = 16

\* C8: for any list the score is within 0..100, the severity is low from 80
\* up, medium from 50 to 79 and high below 50, and a list of supported
\* labels only gives (100, low).
C8_ScoreRangeAndSeverity ==
    Scored =>
        /\ ~score_out.raised
        /\ score_out.score \in 0..100
        /\ (score_out.score >= 80) => score_out.severity = "low"
        /\ (score_out.score >= 50 /\ score_out.score < 80) => score_out.severity = "medium"
        /\ (score_out.score < 50) => score_out.severity = "high"
        /\ (\A i \in DOMAIN claims_arg : HasLabel(claims_arg[i], "supported")) =>
               (score_out.score = 100 /\ score_out.severity = "low")

\* C8 witness: a list scored exactly on the boundary of the low band.
C8_Witness ==
    /\ Scored
    /\ score_out.score = 80
    /\ score_out.severity = "low"
    /\ NumLabel(claims_arg, "needs_review") = 1

\* C9 as stated: the empty list gives 100, low and a histogram of four zero
\* counts, not_assessable among them.
C9_FourKeyHistogram ==
    (Scored /\ claims_arg = <<>>) =>
        /\ score_out.score = 100
        /\ score_out.severity = "low"
        /\ score_out.counts =
               [supported |-> 0, uncertain |-> 0, not_assessable |-> 0, needs_review |-> 0]

\* C9 amended: the empty list gives 100, low and a histogram of three zero
\* counts: supported, uncertain and needs_review (no not_assessable key).
C9_ThreeKeyHistogram ==
    (Scored /\ claims_arg = <<>>) =>
        /\ ~score_out.raised
        /\ score_out.score = 100
        /\ score_out.severity = "low"
        /\ score_out.counts = [supported |-> 0, uncertain |-> 0, needs_review |-> 0]

\* C9 witness: compute_score has returned for the empty list.
C9_Witness == Scored /\ claims_arg = <<>> /\ score_out.score = 100

\* C10: an alignment with no label, or with a label the scorer does not
\* know, is counted under uncertain and penalized at the uncertain weight;
\* no alignment is dropped and the call raises nothing.
C10_UnknownCountedAsUncertain ==
    Scored =>
        /\ ~score_out.raised
        /\ Len(claims_arg) > 0 =>
            /\ score_out.counts["uncertain"] =
                   NumLabel(claims_arg, "uncertain") + NumUnknown(claims_arg)
            /\ score_out.counts["supported"] = NumLabel(claims_arg, "supported")
            /\ score_out.counts["needs_review"] = NumLabel(claims_arg, "needs_review")
            /\ score_out.counts["supported"] + score_out.counts["uncertain"]
                   + score_out.counts["needs_review"] = Len(claims_arg)
            /\ score_out.total_penalty =
                   8 * (NumLabel(claims_arg, "uncertain") + NumUnknown(claims_arg))
                   + 25 * NumLabel(claims_arg, "needs_review")

\* C10 witness: a scored list with one alignment that has no label and one
\* whose label is no label of the vocabulary.
C10_Witness ==
    /\ Scored
    /\ \E i \in DOMAIN claims_arg : "label" \notin DOMAIN claims_arg[i]
    /\ \E i \in DOMAIN claims_arg : HasLabel(claims_arg[i], "bogus")
    /\ score_out.counts["uncertain"] >= 2

----------------------------------------------------------------------------
(* Properties of the bookkeeping of run_audit, checked under Spec *)

\* the elements of s are pairwise different and stand in the order of t
InOrderOf(s, t) ==
    \E f \in [DOMAIN s -> DOMAIN t] :
        /\ \A i \in DOMAIN s : t[f[i]] = s[i]
        /\ \A i, j \in DOMAIN s : i < j => f[i] < f[j]

\* C11: when infer_structured hands a stage's result back to run_audit, the
\* stage's name is appended to schema_repairs and the returned errors are
\* appended to pipeline_errors if the returned error list is not empty, and
\* both are left alone if it is empty; either way the run goes on to the
\* next stage.  So schema_repairs lists stages in stage order, each at most
\* once, and only stages that have been run.
C11_RepairsFollowReturnedErrors ==
    /\ [][pc = "ret" =>
             /\ ret.errs # <<>> =>
                   /\ schema_repairs' = Append(schema_repairs, stage)
                   /\ errors' = errors \o ret.errs
             /\ ret.errs = <<>> => UNCHANGED <<schema_repairs, errors>>
             /\ pc' = "call"
             /\ stage' = NextStage(stage)]_vars
    /\ [](/\ InOrderOf(schema_repairs, StageOrder)
          /\ \A i \in DOMAIN schema_repairs :
                \E j \in DOMAIN trace : trace[j] = schema_repairs[i]
          /\ (errors = <<>>) <=> (schema_repairs = <<>>))

\* a finished run in which the first and the third stage came back with
\* errors and the second did not
C11_Witness ==
    /\ pc = "done"
    /\ result.schema_repairs = <<"claim_extraction", "alignment">>
    /\ Len(result.pipeline_errors) = 2
    /\ "image_findings" \notin exhausted

\* the six numbered steps of a run, by number
StepStage ==
    <<"claim_extraction", "image_findings", "alignment", "scoring", "rewrite",
      "patient_explain">>

\* the work of step k has begun
StepStarted(k) == \E j \in DOMAIN trace : trace[j] = StepStage[k]

\* step k has produced what it is there for
StepDone(k) ==
    IF StepStage[k] = "scoring" THEN scoring # NoValue
    ELSE stage_result[StepStage[k]] # NoValue

\* the callback has been called with steps 1, 2, ... in that order and total 6
CountsUp ==
    /\ Len(progress_log) <= 6
    /\ \A k \in DOMAIN progress_log :
          progress_log[k].step = k /\ progress_log[k].total = 6

\* C12 as stated: with a callback supplied it is called six times, with
\* steps 1..6 in order and total 6, and the call with index k is made after
\* stage k has completed.
C12_CalledAfterStage ==
    progress_cb =>
        /\ CountsUp
        /\ (pc = "done") => Len(progress_log) = 6
        /\ \A k \in DOMAIN progress_log : StepDone(k)

\* C12, corrected: with a callback supplied it is called exactly six times
\* per run, with steps 1..6 in order and total 6, and the call with index k
\* is made before the work of step k begins and after every earlier step has
\* completed (the clinician summary, which has no call of its own, completes
\* before call 6); no step begins before its call.  Without a callback
\* nothing is called.
C12_CalledBeforeStep ==
    /\ ~progress_cb => progress_log = <<>>
    /\ progress_cb =>
          /\ CountsUp
          /\ (pc = "done") => Len(progress_log) = 6
          /\ \A k \in 1..6 : StepStarted(k) => k <= Len(progress_log)
          /\ \A k \in DOMAIN progress_log : \A j \in 1..(k - 1) : StepDone(j)
          /\ Len(progress_log) = 6 => stage_result["clinician_summary"] # NoValue
          /\ (pc = "step") =>
                /\ progress_log # <<>>
                /\ ~StepStarted(Len(progress_log))
                /\ ~StepDone(Len(progress_log))

\* the callback has just been called for step 3, outside mock mode
C12_Witness ==
    /\ progress_cb
    /\ ~mock
    /\ pc = "step"
    /\ Len(progress_log) = 3
    /\ progress_log[3] = [step |-> 3, total |-> 6, msg |-> "alignment"]

\* d without the key
DictWithout(d, key) == [k \in DOMAIN d \ {key} |-> d[k]]

\* C13: a run writes its record exactly once, to the path made of its
\* run_id, after all stages have executed and before the record is
\* returned; as long as the last stage has not finished nothing is written.
C13_WrittenOnceAtTheEnd ==
    /\ Len(written) <= 1
    /\ (written # <<>>) <=> (pc \in {"return", "done"})
    /\ (written # <<>>) =>
          /\ written[1].path = <<"runs", run_id, "results.json">>
          /\ written[1].data.run_id = run_id
          /\ trace = StageOrder
          /\ \A t \in Tasks : stage_result[t] # NoValue
          /\ scoring # NoValue
    /\ (pc = "done") =>
          /\ Len(written) = 1
          /\ result.run_id = run_id
          /\ written[1].data = DictWithout(result, "results_path")

\* the record is on disk and has not been returned yet; a stage of the run
\* had fallen back
C13_Witness ==
    /\ pc = "return"
    /\ Len(written) = 1
    /\ written[1].data.schema_repairs # <<>>

----------------------------------------------------------------------------
(* Properties of concurrent runs, checked under ConcSpec *)

\* C14: with several run_audit calls in flight, interleaved at stage
\* boundaries, the stage outputs and the record of each run are the ones the
\* run's own inputs give: what a run of its own on the same report produces.
C14_RunsIsolated ==
    \A r \in DOMAIN runs :
        /\ \A t \in Tasks :
              runs[r].stage_result[t] # NoValue =>
                  runs[r].stage_result[t] = SoloResults(runs[r].report_text)[t]
        /\ runs[r].result # NoValue =>
              runs[r].result = SoloRecord(r, runs[r].report_text)

----------------------------------------------------------------------------
(* Properties of run_audit on any input, checked under InputSpec *)

\* the keys of the record run_audit returns
ResultKeys ==
    {"run_id", "case_label", "original_report", "mock_mode", "claims", "findings", "image_quality",
     "alignments", "overall_score", "severity", "flag_counts", "rewrites",
     "edited_report", "clinician_summary", "patient_explanation", "pipeline_errors",
     "schema_repairs", "results_path"}

\* C15: a call of run_audit fails only on invalid input (no image, no report
\* text) and only before any stage has run; otherwise it returns a fully
\* assembled record, and it is only at its return that the caller sees one.
C15_ValidatedOrReturned ==
    /\ (pc = "raised") =>
          /\ image = "None" \/ report_text = NoReport
          /\ trace = <<>>
    /\ (pc = "done") =>
          /\ DOMAIN result = ResultKeys
          /\ \A t \in Tasks : stage_result[t] # NoValue

----------------------------------------------------------------------------
(* Properties of a mock-mode run, checked under Spec *)

\* a finished mock-mode run on the pneumonia report
PneumoniaRunDone ==
    /\ mock
    /\ pc = "done"
    /\ report_text.name = "pneumonia report"

\* C16 as stated: the run has a score within [75, 90], severity low, 5
\* claims, 5 alignments and no pipeline errors.
C16_ScoreWithin75And90 ==
    PneumoniaRunDone =>
        /\ result.overall_score \in 75..90
        /\ result.severity = "low"
        /\ Len(result.claims) = 5
        /\ Len(result.alignments) = 5
        /\ result.pipeline_errors = <<>>

\* C16, corrected: in mock mode the run on the pneumonia report has a
\* score of 94 (four supported alignments and one uncertain one: 100 -
\* int(8 / 125 * 100)), severity low, exactly 5 claims, exactly 5 alignments
\* and no pipeline errors.
C16_ScoreIs94 ==
    PneumoniaRunDone =>
        /\ result.overall_score = 94
        /\ result.severity = "low"
        /\ Len(result.claims) = 5
        /\ Len(result.alignments) = 5
        /\ result.pipeline_errors = <<>>

C16_Witness ==
    /\ PneumoniaRunDone
    /\ result.overall_score = 94
    /\ result.flag_counts.uncertain = 1

----------------------------------------------------------------------------
(* Properties of extract_json_from_text, checked under TextSpec *)

Extracted == text_pc = "returned"

\* o is the text of one object, with nothing around it
WellFormedObject(o) ==
    /\ o # <<>>
    /\ o[1] = "{"
    /\ o[Len(o)] = "}"
    /\ json_loads(o).ok

\* words and white space: no brace, no quote, no fence
Prose(u) == \A i \in DOMAIN u : u[i] \in {"p", "w", "j"}

WhiteSpace(u) == \A i \in DOMAIN u : u[i] = "w"

\* the opening of a fenced block: the fence, perhaps the word json, white space
FenceOpening(u) ==
    /\ u # <<>>
    /\ u[1] = "F"
    /\ \/ WhiteSpace(SubSeq(u, 2, Len(u)))
       \/ Len(u) >= 2 /\ u[2] = "j" /\ WhiteSpace(SubSeq(u, 3, Len(u)))

\* the closing of a fenced block: white space, the fence
FenceClosing(u) ==
    /\ u # <<>>
    /\ u[Len(u)] = "F"
    /\ WhiteSpace(SubSeq(u, 1, Len(u) - 1))

\* the order of the three tries, and their outcome, for the text t and the
\* value out returned for it
TriesInOrder(t, out) ==
    /\ json_loads(t).ok => out = json_loads(t).val
    /\ (out = None) <=>
          /\ ~json_loads(t).ok
          /\ ~(SearchFenced(t).found /\ json_loads(SearchFenced(t).group).ok)
          /\ ~(SearchBraces(t).found /\ json_loads(SearchBraces(t).group).ok)
    /\ (out # None) =>
          \E a, b \in 1..Len(t) :
              /\ json_loads(SubSeq(t, a, b)).ok
              /\ out = json_loads(SubSeq(t, a, b)).val
    /\ \A a, b \in 1..Len(t) :
          LET o == SubSeq(t, a, b)
              pre == SubSeq(t, 1, a - 1)
              post == SubSeq(t, b + 1, Len(t))
          IN  (a <= b /\ WellFormedObject(o)) =>
                  \* the whole text goes before the fenced block in it
                  /\ (/\ pre = <<"{", "q", "F">>
                      /\ post = <<"F", "q", "}">>
                      /\ \A i \in DOMAIN o : o[i] # "q") =>
                        out = [obj |-> <<[str |-> <<"F">> \o o \o <<"F">>]>>]
                  \* the fenced block goes before the span of the braces
                  /\ (pre = <<"p", "{", "q", "F">> /\ post = <<"F", "q", "}">>) =>
                        out = json_loads(o).val

\* The object o of the text t gives the same value with nothing around it,
\* inside a fenced block (tagged json or not) and inside prose.
SameValueInAllThree(t, out, a, b) ==
    LET o == SubSeq(t, a, b)
        pre == SubSeq(t, 1, a - 1)
        post == SubSeq(t, b + 1, Len(t))
    IN  /\ (pre = <<>> /\ post = <<>>) => out = json_loads(o).val
        /\ (FenceOpening(pre) /\ FenceClosing(post)) => out = json_loads(o).val
        /\ (Prose(pre) /\ Prose(post)) => out = json_loads(o).val

----------------------------------------------------------------------------
(* Properties of render_highlighted_report, checked under RenderSpec *)

Rendered == render_pc = "returned"

\* the texts of the pieces, one after the other
RECURSIVE Joined(_)
Joined(pieces) ==
    IF pieces = <<>> THEN <<>> ELSE pieces[1].text \o Joined(Tail(pieces))

\* a report of 40 characters with two claims whose sentence spans are
\* [0, 10) and [20, 30), and an alignment
TwoSpansOfForty ==
    /\ Len(render_in.report_text) = 40
    /\ render_in.alignments # <<>>
    /\ Len(render_in.claims) = 2
    /\ \A i \in 1..2 : "sentence_span" \in DOMAIN render_in.claims[i]
    /\ {<<render_in.claims[i].sentence_span.start, render_in.claims[i].sentence_span.end>> :
           i \in 1..2} = {<<0, 10>>, <<20, 30>>}

\* C18 as stated: for these two spans the highlighter emits exactly 3
\* pieces, from left to right, whose text taken together is as long as the
\* report.
C18_ThreeSegments ==
    (Rendered /\ TwoSpansOfForty) =>
        /\ Len(render_out) = 3
        /\ Len(Joined(render_out)) = 40

\* the sentence spans of the claims are not empty, lie inside the text and
\* none begins before another has ended
SpansInOrder(in) ==
    /\ \A i \in DOMAIN in.claims :
          /\ "sentence_span" \in DOMAIN in.claims[i]
          /\ in.claims[i].sentence_span.start < in.claims[i].sentence_span.end
          /\ in.claims[i].sentence_span.end <= Len(in.report_text)
    /\ \A i, j \in DOMAIN in.claims :
          i # j =>
              \/ in.claims[i].sentence_span.end <= in.claims[j].sentence_span.start
              \/ in.claims[j].sentence_span.end <= in.claims[i].sentence_span.start

\* C18, corrected: for a report of 40 characters and the two spans [0, 10)
\* and [20, 30) the highlighter emits exactly 4 pieces, from left to right:
\* the span element of [0, 10), the plain text of [10, 20), the span element
\* of [20, 30) and the plain text of [30, 40); their text taken together is
\* the report.  Whenever the spans are not empty, lie inside the text and do
\* not overlap, the text of the pieces taken together is the report.
C18_FourSegments ==
    Rendered =>
        /\ TwoSpansOfForty =>
              /\ Len(render_out) = 4
              /\ render_out[1].tag # "plain"
              /\ render_out[1].text = SubSeq(render_in.report_text, 1, 10)
              /\ render_out[2] = Plain(SubSeq(render_in.report_text, 11, 20))
              /\ render_out[3].tag # "plain"
              /\ render_out[3].text = SubSeq(render_in.report_text, 21, 30)
              /\ render_out[4] = Plain(SubSeq(render_in.report_text, 31, 40))
              /\ Len(Joined(render_out)) = 40
        /\ SpansInOrder(render_in) => Joined(render_out) = render_in.report_text

\* the two spans, the later one with the first claim
C18_Witness ==
    /\ Rendered
    /\ TwoSpansOfForty
    /\ render_in.claims[1].sentence_span.start = 20
    /\ Len(render_out) = 4
    /\ render_out[1].claim_id = "c2"

----------------------------------------------------------------------------
(* Properties of the prompts of run_audit, checked under Spec *)

\* the alignments of the run that carry one of the three flagged labels, in
\* their order
FlaggedOfRun ==
    SelectSeq(DictGet(stage_result["alignment"], "alignments", <<>>),
              LAMBDA a : "label" \in DOMAIN a
                         /\ a.label \in {"uncertain", "needs_review", "not_assessable"})

\* C19: the alignments passed into the rewrite prompt and the alignments
\* passed into the clinician summary prompt are both exactly those labeled
\* uncertain, needs_review or not_assessable, in their original order.
C19_FlaggedInBothPrompts ==
    /\ DictGet(prompt, "name", "") = "rewrite" => prompt.alignment_json = FlaggedOfRun
    /\ DictGet(prompt, "name", "") = "clinician_summary" =>
          prompt.flagged_claims_json = FlaggedOfRun

----------------------------------------------------------------------------
(* Properties of run_batch, checked under BatchSpec *)

\* the cases that have been audited so far, in the order of the list
Audited == SubSeq(cases, 1, case_i - 1)

\* the ids of the cases of a list of records, under the given key
IdsOf(s, key) == [k \in DOMAIN s |-> s[k][key]]

\* the cases of the list, in their order, whose id is in the set
CasesWithId(s, ids) == IdsOf(SelectSeq(s, LAMBDA c : c.case_id \in ids), "case_id")

Range(s) == {s[k] : k \in DOMAIN s}

\* C20: run_batch audits the cases one at a time in list order; the
\* exception of a case's run_audit is recorded against that case and the
\* later cases are still audited; in the returned summary completed plus
\* failed is total_cases and the counts of the severity distribution add up
\* to completed.
C20_EveryCaseAccountedFor ==
    LET completed == Range(IdsOf(batch_results, "case_label"))
        failed == Range(IdsOf(batch_errors, "case_id"))
    IN  /\ completed \cap failed = {}
        /\ completed \cup failed = Range(IdsOf(Audited, "case_id"))
        /\ IdsOf(batch_results, "case_label") = CasesWithId(cases, completed)
        /\ IdsOf(batch_errors, "case_id") = CasesWithId(cases, failed)
        /\ batch_cb =>
              IdsOf(SelectSeq(batch_log, LAMBDA c : c.detail = "case"), "i")
                  = [k \in DOMAIN Audited |-> k]
        /\ (batch_pc = "returned") =>
              LET summary == batch_out.summary
                  dist == summary.severity_distribution
              IN  /\ Len(Audited) = Len(cases)
                  /\ batch_out.results = batch_results
                  /\ summary.errors = batch_errors
                  /\ summary.total_cases = Len(cases)
                  /\ summary.completed + summary.failed = summary.total_cases
                  /\ dist.low + dist.medium + dist.high = summary.completed

\* the first case's run_audit raised, the batch went on and returned with
\* the first case as its one failure
C20_Witness ==
    /\ batch_pc = "returned"
    /\ Len(cases) >= 2
    /\ IdsOf(batch_errors, "case_id") = <<CaseId(1)>>
    /\ batch_out.summary.failed = 1
    /\ batch_out.summary.completed = Len(cases) - 1

----------------------------------------------------------------------------
(* Properties of the retry loop of infer_structured, checked under Spec *)

\* C21: within one infer_structured call a pause of one second separates
\* every failed attempt from the next attempt, whatever the failure was (no
\* JSON, schema violation or exception), and no pause follows the last
\* attempt.
C21_PauseAfterEveryFailure ==
    /\ (pc = "loop") => \A k \in 1..(attempt - 1) : k \in pauses
    /\ MAX_RETRIES \notin pauses

\* C22: schema_repairs holds the name of every stage that needed a retry,
\* the stage whose first attempt failed and whose later attempt succeeded
\* included: a call that returns after more than one attempt has its stage
\* listed.
C22_RetriedStagesListed ==
    [][(pc = "ret" /\ calls > 1) =>
          \E i \in DOMAIN schema_repairs' : schema_repairs'[i] = stage]_vars

\* the latest generation call of the infer_structured call in progress was
\* the one of attempt k
LatestAttempt(k) == ~mock /\ pc \in {"loop", "ret"} /\ calls = k

\* C23: attempt 1 sends the prompt as it is; attempt k > 1 sends the prompt
\* followed by one hint, which spells out the errors of attempt k - 1 and of
\* no other attempt.  Hints are not carried forward: what is sent is never
\* more than the prompt and one hint.
C23_OneHintOfThePreviousAttempt ==
    \A k \in 1..MAX_RETRIES :
        LatestAttempt(k) =>
            /\ prompt_to_use.prompt = prompt
            /\ Len(prompt_to_use.retry_hints) <= 1
            /\ (k = 1) => prompt_to_use.retry_hints = <<>>
            /\ (k > 1) =>
                  /\ Len(prompt_to_use.retry_hints) = 1
                  /\ prompt_to_use.retry_hints[1] # <<>>
                  /\ \A i \in DOMAIN prompt_to_use.retry_hints[1] :
                        prompt_to_use.retry_hints[1][i].of_attempt = k - 1

\* the third attempt of a call, after a second attempt that failed the schema:
\* its hint is that schema error alone
C23_Witness ==
    /\ LatestAttempt(3)
    /\ prompt_to_use.retry_hints = <<<<[of_attempt |-> 2, msg |-> "schema violation"]>>>>
    /\ last_gen.kind = "raise"

----------------------------------------------------------------------------
(* Properties of the record of a run, checked under Spec *)

\* C24: the record is not changed once it is assembled: what run_audit
\* returns has the contents of what it handed to write_json.
C24_ReturnedAsWritten ==
    (pc = "done") =>
        /\ Len(written) = 1
        /\ written[1].data = result

\* the rewrite stage of the run has returned
RewriteReturned == stage_result["rewrite"] # NoValue

\* the prompt of the patient explanation has been built
PatientPromptBuilt == DictGet(prompt, "name", "") = "patient_explain"

\* C25: the report text in the patient explanation prompt is the
\* edited_report of the rewrite result, and it is the original report text
\* only when the rewrite result has no edited_report key.
C25_PatientPromptHasEditedReport ==
    PatientPromptBuilt =>
        /\ RewriteReturned
        /\ "edited_report" \in DOMAIN stage_result["rewrite"] =>
              prompt.report_text = stage_result["rewrite"].edited_report
        /\ "edited_report" \notin DOMAIN stage_result["rewrite"] =>
              prompt.report_text = report_text.name

\* a rewrite response without the key: the patient explanation is asked for
\* the original report
C25_Witness ==
    /\ PatientPromptBuilt
    /\ ~mock
    /\ "edited_report" \notin DOMAIN stage_result["rewrite"]
    /\ prompt.report_text = "pneumonia report"

\* C28: when the rewrite stage runs out of attempts and falls back, the
\* edited report of the run is the empty string and not the original report:
\* the patient explanation prompt is built from the empty string and the
\* record carries it as edited_report.
C28_FallbackRewriteGivesEmptyReport ==
    ("rewrite" \in exhausted /\ RewriteReturned) =>
        /\ report_text.name # ""
        /\ PatientPromptBuilt => prompt.report_text = ""
        /\ (result # NoValue) => result.edited_report = ""

\* a finished run whose rewrite stage fell back, and only that stage
C28_Witness ==
    /\ pc = "done"
    /\ exhausted = {"rewrite"}
    /\ prompt.report_text = ""
    /\ result.edited_report = ""
    /\ result.original_report.name = "pneumonia report"

----------------------------------------------------------------------------
(* Properties of the merge of claim texts into the alignments, checked under Spec *)

\* the claims the run has extracted
ClaimsOfRun == DictGet(stage_result["claim_extraction"], "claims", <<>>)

\* the alignment names a claim that is not among the claims of the run
Unmatched(a) == \A i \in DOMAIN ClaimsOfRun : ClaimsOfRun[i].claim_id # a.claim_id

\* the alignments of an alignment result
AlignmentsOf(r) == DictGet(r, "alignments", <<>>)

\* C26: an alignment whose claim_id matches no claim of the run gets the
\* empty string as its claim text; the run goes on to scoring and does not
\* fail, and nothing is added to pipeline_errors or schema_repairs for it.
C26_UnmatchedAlignmentIsNotAnError ==
    /\ [](/\ pc # "raised"
          /\ \A i \in DOMAIN AlignmentsOf(stage_result["alignment"]) :
                LET a == AlignmentsOf(stage_result["alignment"])[i]
                IN  Unmatched(a) => a.claim_text = "")
    /\ [][(/\ pc = "ret"
           /\ stage = "alignment"
           /\ \E i \in DOMAIN AlignmentsOf(ret.result) :
                 Unmatched(AlignmentsOf(ret.result)[i]))
          => /\ pc' = "call"
             /\ stage' = "scoring"
             /\ errors' = errors
             /\ schema_repairs' = schema_repairs]_vars

\* a finished run with no claim and one alignment, which names claim c1: the
\* alignment is in the record with an empty claim text, and the run has no
\* error
C26_Witness ==
    /\ pc = "done"
    /\ ~mock
    /\ result.claims = <<>>
    /\ Len(result.alignments) = 1
    /\ result.alignments[1].claim_id = "c1"
    /\ result.alignments[1].claim_text = ""
    /\ result.pipeline_errors = <<>>
    /\ result.schema_repairs = <<>>

----------------------------------------------------------------------------
(* Properties of the histogram of compute_score, checked under ScoreSpec *)

\* the sum of the values of a histogram over the given keys
RECURSIVE SumOver(_, _)
SumOver(counts, keys) ==
    IF keys = {} THEN 0
    ELSE LET k == CHOOSE x \in keys : TRUE
         IN  counts[k] + SumOver(counts, keys \ {k})

\* the label the alignment is counted under
CountedUnder(a) == IF UnknownLabel(a) THEN "uncertain" ELSE a.label

\* C30: for a list that is not empty the values of the histogram add up to
\* the number of alignments, each alignment being counted under one label
\* and no other.
C30_HistogramCountsEveryAlignment ==
    (Scored /\ Len(claims_arg) > 0) =>
        /\ ~score_out.raised
        /\ SumOver(score_out.counts, DOMAIN score_out.counts) = Len(claims_arg)
        /\ \A l \in DOMAIN score_out.counts :
              score_out.counts[l] =
                  Cardinality({i \in DOMAIN claims_arg : CountedUnder(claims_arg[i]) = l})

\* a list with every known label, the fourth label of the vocabulary and an
\* alignment with no label at all
C30_Witness ==
    /\ Scored
    /\ Len(claims_arg) = 5
    /\ \A l \in {"supported", "needs_review", "uncertain", "not_assessable"} :
          NumLabel(claims_arg, l) = 1
    /\ score_out.counts = [supported |-> 1, uncertain |-> 3, needs_review |-> 1]

----------------------------------------------------------------------------
(* Properties of the model singleton, checked under LoadSpec *)

\* C27: over the local-mode generation calls of a process, the calls of
\* concurrent threads included, the model is loaded at most once, on the
\* first use, and every later call generates with that model.
C27_LoadedAtMostOnce ==
    /\ loads <= 1
    /\ \A t \in DOMAIN threads :
          threads[t].pc = "generate" => threads[t].model.load = 1

----------------------------------------------------------------------------
(* Properties of the number of generation calls of a run, checked under CountSpec *)

\* the sum of gen_calls over the given stages
RECURSIVE CallsOver(_)
CallsOver(stages) ==
    IF stages = {} THEN 0
    ELSE LET s == CHOOSE x \in stages : TRUE
         IN  gen_calls[s] + CallsOver(stages \ {s})

\* C29: outside mock mode a run_audit call makes at least 6 and at most 18
\* generation calls: between 1 and 3 for each of the six stages that go
\* through infer_structured, and none for scoring.
C29_SixToEighteenCalls ==
    ~mock =>
        /\ cnt_pc # "raised"
        /\ gen_calls["scoring"] = 0
        /\ \A t \in Tasks : gen_calls[t] <= 3
        /\ (cnt_pc = "done") =>
              /\ \A t \in Tasks : gen_calls[t] \in 1..3
              /\ CallsOver(CountedStages) \in 6..18

\* a finished run in which every stage used its three attempts
C29_Witness ==
    /\ ~mock
    /\ cnt_pc = "done"
    /\ CallsOver(CountedStages) = 18

====
